---- MODULE Spec2Model ----
(***************************************************************************)
(* Duplex voice session of the realtime voice agent: the audio websocket   *)
(* endpoint (src/api/websocket.py), its two loop tasks                     *)
(* (src/core/stream_manager.py), the reply pipeline                        *)
(* (src/core/response_generator.py), the speech streamer                   *)
(* (src/core/speech_generator.py), the transcriber state                   *)
(* (src/core/transcriber.py) and the Redis backed per client queue         *)
(* (src/utils/queue_manager.py).                                           *)
(*                                                                         *)
(* asyncio is cooperative: one action is the code a task runs from the     *)
(* resumption of one await to the next await.  A task's position names the *)
(* awaited call it is suspended in; the action performs that call with one *)
(* of its outcomes and runs on to the next await.  task.cancel() raises    *)
(* CancelledError at the await the task is suspended in, so the awaited    *)
(* call does not take effect.                                              *)
(*                                                                         *)
(* Init is the state after the endpoint built its RedisManager,            *)
(* QueueManager, DeepgramTranscriber and AudioStreamManager                *)
(* (src/api/websocket.py lines 37-41).                                     *)
(***************************************************************************)
EXTENDS Naturals, Integers, Sequences, FiniteSets, TLC

\* ------------------------------------------------------------------ bounds
MaxSent == 2       \* sentences of one reply
MaxChunks == 1     \* audio chunks the synthesis provider yields per text
MaxFinals == 2     \* final transcripts the transcription provider delivers
MaxFaults == 1     \* provider and broker failures, stops and foreign messages
MaxOps == 5        \* operations of one run of the queue specification
MaxRegisters == 2  \* register_websocket calls made on the RedisManager
MaxUnregisters == 1 \* unregister_websocket calls made by other code
MaxStarts == 2     \* start() calls made on the RedisManager
RetryCap == 3      \* the value at which the model stops counting retries
MaxRuns == 2       \* runs of equal samples an audio chunk is made of
MaxFrames == 2     \* frames of a chunk the voice-activity model is asked about
MaxHeard == 2      \* utterances the desktop assistant's microphone hears
MaxStopCommands == 1 \* stop commands among what the assistant hears
MaxEvents == 2     \* events waiting in the assistant's event queue
MaxCalls == 4      \* calls made on one SentenceProcessor

DefaultMaxRetries == -1   \* ConnectionConfig.max_retries
MainMaxRetries == 3       \* max_retries of the config main.py installs
sample_rate == 16000      \* WebRTCVAD.sample_rate
frame_duration_ms == 20   \* WebRTCVAD.frame_duration_ms
ThresholdNum == 1         \* is_low_energy: threshold=0.01 as a fraction,
ThresholdDen == 100       \* ThresholdNum / ThresholdDen

Clients == {"c1", "c2"}
Self == "c1"       \* client_id of the modelled session

None == [type |-> "None", content |-> <<0, 0>>]
BlankText == <<0, 0>>            \* a whitespace-only text
Contents == (0 .. MaxFinals) \X (0 .. MaxSent)
Sentence(u, k) == [type |-> "sentence", content |-> <<u, k>>]
ExtMessages == {[type |-> "sentence", content |-> BlankText],
                [type |-> "control", content |-> <<0, 1>>]}

\* ------------------------------------------------- queue_manager.py, redis
get_queue_key(user_id) == <<"queue", user_id>>
Keys == {get_queue_key(c) : c \in Clients}

dumps(message) == <<"json", message.type, message.content>>
loads(s) == [type |-> s[2], content |-> s[3]]

\* text.strip() is empty
strip_empty(text) == text = BlankText

lpush_wrong_end(r, key, v) == [r EXCEPT ![key] = Append(@, v)]
lpush(r, key, v) == [r EXCEPT ![key] = <<v>> \o @]

brpop_ready(r, key) == Len(r[key]) > 0
brpop_result_left_end(r, key) == <<key, r[key][1]>>
brpop_result(r, key) == <<key, r[key][Len(r[key])]>>
brpop_left_peek(r, key) == r
brpop_left(r, key) == [r EXCEPT ![key] = SubSeq(@, 1, Len(@) - 1)]

delete_nothing(r, key) == r
delete(r, key) == [r EXCEPT ![key] = <<>>]
llen(r, key) == Len(r[key])

\* QueueManager.put / get / clear_user_queue / get_length on a reachable broker
put(r, user_id, message) == lpush(r, get_queue_key(user_id), dumps(message))
get_message(r, user_id) == loads(brpop_result(r, get_queue_key(user_id))[2])
get_left(r, user_id) == brpop_left(r, get_queue_key(user_id))
clear_user_queue(r, user_id) == delete(r, get_queue_key(user_id))
get_length(r, user_id) == llen(r, get_queue_key(user_id))

\* the messages of a client's queue, oldest first
Pending(r, user_id) ==
  LET q == r[get_queue_key(user_id)]
  IN [i \in 1 .. Len(q) |-> loads(q[Len(q) + 1 - i])]

VARIABLES
  redis,               \* the broker: key -> list, index 1 is the left end
  ep,                  \* audio_websocket_endpoint: the await it is at
  ep_error,            \* the endpoint is in / went through `except Exception`
  qt,                  \* queue_task (process_queue): the await it is at
  qt_exc,              \* queue_task finished with an exception
  qt_cancel,           \* task.cancel() was called on queue_task
  at,                  \* audio_task (process_audio): the await it is at
  at_exc,              \* audio_task finished with an exception
  at_cancel,           \* task.cancel() was called on audio_task
  current_message,     \* AudioStreamManager.current_message
  sa,                  \* stream_audio: the await it is at, idle when not running
  sa_text,             \* stream_audio's text argument
  in_flight,           \* stream_audio calls started and not yet returned
  is_running,          \* AudioStreamManager.is_running
  cleanup_event,       \* AudioStreamManager._cleanup_event
  is_streaming,        \* TextToSpeechHandler.is_streaming
  chunk_count,         \* stream_audio's local chunk_count
  sock_open,           \* the client has not closed the socket
  active_connections,  \* ConnectionManager.active_connections
  dg_connection,       \* DeepgramTranscriber.dg_connection: none/open/finished
  is_finals,           \* DeepgramTranscriber.is_finals
  transcription_complete,
  complete_at,         \* len(is_finals) when speech_final completed the utterance
  pr,                  \* process_response: utterance, sentences put, a chunk came
  sent,                \* envelopes stream_audio wrote to the socket
  putlog,              \* contents put by process_response, in order
  streamed,            \* contents handed to stream_audio, in order
  discarded,           \* messages process_queue took and dropped unstreamed
  returns,             \* how each stream_audio call ended, in call order
  pq_exc,              \* the last exception raised inside process_queue's loop
  stop_seen,           \* the client sent a stop directive
  pa_exc,              \* the last exception raised inside process_audio's loop
  put_failed,          \* contents whose put raised in process_response
  emitted,             \* utterances process_audio passed to process_response
  nUtt, nFinals, nFaults,
  qlog                 \* queue specification: per client puts, gets, ops

\* RedisManager (utils/redis_manager.py) and the calls in progress on it
VARIABLES
  active_websockets,   \* client id -> registered WebSocket, NoSocket if none
  stop_event,          \* RedisManager.stop_event is set
  redis_client,        \* "none", or "client" once redis.Redis(...) was made
  connection_lock,     \* _connection_lock: 0 when free, else the monitor
  max_retries,         \* config.max_retries
  regs,                \* register_websocket calls: client, the await it is at
  hb,                  \* _websocket_heartbeat tasks, one per create_task
  ext,                 \* unregister_websocket calls made by other code
  stp,                 \* the stop() call: await it is at, ids left to visit
  starts,              \* start() calls: await it is at, retries of connect
  monitors,            \* _monitor_connection tasks, one per create_task
  unreg_returns,       \* per client id, unregister_websocket calls returned
  key_errors,          \* KeyErrors of `del` caught inside unregister_websocket
  escaped              \* exceptions that left unregister_websocket

rmVars == <<active_websockets, stop_event, redis_client, connection_lock,
            max_retries, regs, hb, ext, stp, starts, monitors,
            unreg_returns, key_errors, escaped>>

\* WebRTCVAD (utils/silence_detector.py): one call of each method on a chunk
VARIABLES
  audio_chunk,         \* the chunk: runs of equal int16 samples, a spare byte
  verdicts,            \* what vad.is_speech does for the k-th frame it gets
  called,              \* the methods that were called
  frames_out,          \* split_into_frames: the frames, as byte offsets
  speech_out,          \* what is_speech returned
  energy_out           \* what is_low_energy returned, or that it raised

segVars == <<audio_chunk, verdicts, called, frames_out, speech_out,
             energy_out>>

\* VoiceAssistant (assistant.py) with its TextToSpeechHandler (tts.py)
VARIABLES
  state,               \* VoiceAssistant.state
  state_lock,          \* the thread holding state_lock, or "free"
  event_queue,         \* VoiceAssistant.event_queue
  sentence_queue,      \* TextToSpeechHandler.sentence_queue
  audio_queue,         \* TextToSpeechHandler.audio_queue
  is_playing,          \* TextToSpeechHandler.is_playing
  audio_files,         \* the files in audio_dir, named by their sentence
  sd_playing,          \* what the sound device is playing
  va_main,             \* start(): where the main thread is
  va_audio,            \* _audio_worker: where it is
  va_event,            \* _event_worker: where it is, the event it handles
  va_monitor,          \* _monitor_tts_queue: where it is
  tts_worker,          \* _tts_worker: where it is, the sentence it has
  playback_worker,     \* _playback_worker: where it is, the file it has
  cause,               \* the statement that assigned state last
  va_log               \* history: what was heard, queued, played, stopped

vaVars == <<state, state_lock, event_queue, sentence_queue, audio_queue,
            is_playing, audio_files, sd_playing, va_main, va_audio, va_event,
            va_monitor, tts_worker, playback_worker, cause, va_log>>

\* SentenceProcessor (utils/sentence_processor.py) and the process_response
\* (core/response_generator.py) that drives it
VARIABLES
  buffer,              \* SentenceProcessor.buffer, as characters
  processed_sentences, \* SentenceProcessor.processed_sentences
  sp_log,              \* the calls made: method, text looked at, result
  rg                   \* process_response: where it is, its local variable
                       \* `sentences`, what it put, complete_response

spVars == <<buffer, processed_sentences, sp_log, rg>>

extVars == <<rmVars, segVars, vaVars, spVars>>

NoSocket == 0        \* no entry for the client id in active_websockets
NoClient == ""
Configs == {DefaultMaxRetries, MainMaxRetries}

\* RedisManager.__init__, with max_retries of the given ConnectionConfig; no
\* call was made yet
InitManager(config) ==
  /\ active_websockets = [c \in Clients |-> NoSocket]
  /\ stop_event = FALSE
  /\ redis_client = "none"
  /\ connection_lock = 0
  /\ max_retries = config
  /\ regs = [i \in 1 .. MaxRegisters |-> [client |-> NoClient, pc |-> "none"]]
  /\ hb = [i \in 1 .. MaxRegisters |->
             [client |-> NoClient, pc |-> "none", failed |-> FALSE,
              sock |-> NoSocket, closes |-> NoSocket,
              removed |-> NoSocket]]
  /\ ext = [i \in 1 .. MaxUnregisters |->
              [client |-> NoClient, pc |-> "none"]]
  /\ stp = [pc |-> "none", keys |-> {}, cur |-> NoClient]
  /\ starts = [i \in 1 .. MaxStarts |->
                 [pc |-> "none", retries |-> 0, result |-> "none"]]
  /\ monitors = [i \in 1 .. MaxStarts |-> [pc |-> "none", retries |-> 0]]
  /\ unreg_returns = [c \in Clients |-> 0]
  /\ key_errors = 0
  /\ escaped = {}

\* WebRTCVAD.__init__: frame_size in bytes, 16-bit samples
frame_size == ((sample_rate * frame_duration_ms) \div 1000) * 2

\* chunks are sequences of runs [v |-> sample value, n |-> how many], with
\* an odd byte at the end or not
Samples == {0, 1, 200, 256}
Counts == {1, frame_size \div 2 - 1, frame_size \div 2, frame_size \div 2 + 1}
Runs == [v : Samples, n : Counts]
RunSeqs == UNION {[1 .. k -> Runs] : k \in 0 .. MaxRuns}
Chunks == [runs : RunSeqs, odd : BOOLEAN]
Verdicts == [1 .. MaxFrames -> {"speech", "silence", "raise"}]
NoChunk == [runs |-> <<>>, odd |-> FALSE]

InitSegmenter(chunk, model) ==
  /\ audio_chunk = chunk
  /\ verdicts = model
  /\ called = {}
  /\ frames_out = <<>>
  /\ speech_out = "none"
  /\ energy_out = "none"

\* a sentence of a reply is named <<utterance, position>>
NoSentence == <<0, 0>>
NoLogVA == [heard |-> 0, stops |-> 0, put |-> {}, stopped |-> {},
            started |-> {}, late |-> {}, generations |-> 0]

\* VoiceAssistant.__init__; TextToSpeechHandler.__init__ has started the
\* TTS worker and the playback worker
InitAssistant ==
  /\ state = "IDLE"
  /\ state_lock = "free"
  /\ event_queue = <<>>
  /\ sentence_queue = <<>>
  /\ audio_queue = <<>>
  /\ is_playing = FALSE
  /\ audio_files = {}
  /\ sd_playing = NoSentence
  /\ va_main = "init"
  /\ va_audio = "none"
  /\ va_event = [pc |-> "none", data |-> 0, put |-> 0]
  /\ va_monitor = "none"
  /\ tts_worker = [pc |-> "get", sentence |-> NoSentence]
  /\ playback_worker = [pc |-> "get", file |-> NoSentence]
  /\ cause = "init"
  /\ va_log = NoLogVA

\* SentenceProcessor.__init__; `sentences` of process_response is unbound
\* until the first chunk, complete_response until the stream has ended
InitProcessor(caller) ==
  /\ buffer = <<>>
  /\ processed_sentences = {}
  /\ sp_log = <<>>
  /\ rg = [pc |-> caller, bound |-> FALSE, sentences |-> <<>>, put |-> <<>>,
           completed |-> FALSE, complete_response |-> <<>>]

InitExt ==
  /\ InitManager(MainMaxRetries)
  /\ InitSegmenter(NoChunk, [k \in 1 .. MaxFrames |-> "silence"])
  /\ InitAssistant
  /\ InitProcessor("none")

vars == <<redis, ep, ep_error, qt, qt_exc, qt_cancel, at, at_exc, at_cancel,
          current_message, sa, sa_text, in_flight,
          is_running, cleanup_event, is_streaming,
          chunk_count, sock_open, active_connections, dg_connection,
          is_finals, transcription_complete, complete_at, pr, sent,
          putlog, streamed, discarded, returns, pq_exc, stop_seen, pa_exc, emitted,
          put_failed, nUtt, nFinals,
          nFaults, qlog, extVars>>

WS == "ws"          \* the session's WebSocket object

sessionVars == <<ep, ep_error, qt, qt_exc, qt_cancel, at, at_exc, at_cancel,
                 current_message, sa, sa_text, in_flight,
                 is_running, cleanup_event, is_streaming,
                 chunk_count, sock_open, active_connections, dg_connection,
                 is_finals, transcription_complete, complete_at, pr, sent,
                 putlog, streamed, discarded, returns, pq_exc, stop_seen, pa_exc,
                 emitted, put_failed, nUtt,
                 nFinals, nFaults>>

NoReply == [utt |-> 0, next |-> 0, any |-> FALSE]

InitSession ==
  /\ ep = "connect" /\ ep_error = FALSE
  /\ qt = "none" /\ qt_exc = FALSE /\ qt_cancel = FALSE
  /\ at = "none" /\ at_exc = FALSE /\ at_cancel = FALSE
  /\ current_message = None
  /\ sa = "idle" /\ sa_text = BlankText /\ in_flight = 0
  /\ is_running = TRUE /\ cleanup_event = FALSE
  /\ is_streaming = FALSE /\ chunk_count = 0
  /\ sock_open = TRUE
  /\ active_connections = <<>>
  /\ dg_connection = "none"
  /\ is_finals = <<>> /\ transcription_complete = FALSE
  /\ complete_at = 0
  /\ pr = NoReply
  /\ sent = <<>>
  /\ putlog = <<>> /\ streamed = <<>> /\ returns = <<>>
  /\ discarded = <<>>
  /\ pq_exc = "none"
  /\ stop_seen = FALSE /\ pa_exc = "none" /\ put_failed = {}
  /\ emitted = <<>>
  /\ nUtt = 0 /\ nFinals = 0 /\ nFaults = 0

\* a client's history: puts and gets since the last clear, the result of the
\* last get, whether the queue was cleared and not put to since, how many
\* messages that clear removed, how many gets since returned no message
NoLog == [c \in Clients |-> [puts |-> <<>>, gets |-> <<>>, last |-> None,
                             cleared |-> FALSE, dropped |-> 0, empty |-> 0]]

Init ==
  /\ redis = [k \in Keys |-> <<>>]
  /\ qlog = [log |-> NoLog, ops |-> 0]
  /\ InitExt
  /\ InitSession

\* ---------------------------------------------------------------- socket
\* websocket.send_json on a socket the client closed raises; which exception
\* depends on the server stack: the RuntimeError process_queue looks for,
\* another RuntimeError, or another exception (WebSocketDisconnect).
SendErrors == {"close_sent", "runtime", "other"}

\* n is chunk_number of an audio_chunk or audio_stream_error envelope and
\* total_chunks of an audio_stream_end envelope
Envelope(type, text, call, n) ==
  [type |-> type, text |-> text, call |-> call, n |-> n]

\* ------------------------------------- stream_manager.py: process_queue
\* top of `while self.is_running`: the await the next iteration reaches
loop_top(running, event, cm) ==
  IF ~running \/ event THEN "done"
  ELSE IF cm = None THEN "get" ELSE "sleep"

\* `streaming_success = await self.tts_generator.stream_audio(...)`: the loop
\* is suspended in the call and keeps the message in current_message
call_stream_audio_detached(msg) == [qt |-> "sleep", current_message |-> None]
call_stream_audio(msg) == [qt |-> "stream_audio", current_message |-> msg]

\* `else:  # Not a sentence message or no message`: current_message = None
not_a_sentence_kept(msg) == msg
not_a_sentence(msg) == None

\* `self.current_message = None  # Skip failed message`
after_failure_keep(msg) == msg
after_failure(msg) == None

QRunning == qt \notin {"none", "done"} /\ ~qt_cancel

dispatchRest == <<ep, ep_error, qt_cancel, at, at_exc, at_cancel, is_running,
                  cleanup_event, sock_open, active_connections,
                  dg_connection, is_finals, transcription_complete, complete_at,
                  pr, putlog, stop_seen, pa_exc, emitted, put_failed, nUtt,
                  nFinals,
                  qlog, extVars>>
Fault == nFaults < MaxFaults /\ nFaults' = nFaults + 1
NoFault == UNCHANGED nFaults

\* wait_for(get) returns a sentence with text: stream_audio is entered and
\* runs to its first send
PQ_get_sentence ==
  /\ QRunning /\ qt = "get"
  /\ brpop_ready(redis, get_queue_key(Self))
  /\ LET m == get_message(redis, Self)
         c == call_stream_audio(m)
     IN /\ m.type = "sentence" /\ ~strip_empty(m.content)
        /\ redis' = get_left(redis, Self)
        /\ current_message' = c.current_message
        /\ qt' = c.qt
        /\ streamed' = Append(streamed, m.content)
        /\ UNCHANGED discarded
        /\ sa' = "send_start" /\ sa_text' = m.content
        /\ in_flight' = in_flight + 1
        /\ is_streaming' = TRUE /\ chunk_count' = 0
  /\ UNCHANGED <<qt_exc, pq_exc, sent, returns>>
  /\ NoFault
  /\ UNCHANGED dispatchRest

\* a sentence whose text is blank: stream_audio returns False at once
PQ_get_blank ==
  /\ QRunning /\ qt = "get"
  /\ brpop_ready(redis, get_queue_key(Self))
  /\ LET m == get_message(redis, Self)
     IN /\ m.type = "sentence" /\ strip_empty(m.content)
        /\ redis' = get_left(redis, Self)
        /\ streamed' = Append(streamed, m.content)
        /\ UNCHANGED discarded
        /\ returns' = Append(returns, "blank")
        /\ current_message' = after_failure(m)
        /\ qt' = loop_top(is_running, cleanup_event, after_failure(m))
  /\ UNCHANGED <<qt_exc, pq_exc, sa, sa_text, in_flight, is_streaming,
                 chunk_count,
                 sent>>
  /\ NoFault
  /\ UNCHANGED dispatchRest

\* a message that is no sentence, or get returned None (Redis TimeoutError)
PQ_get_other ==
  /\ QRunning /\ qt = "get"
  /\ \/ /\ brpop_ready(redis, get_queue_key(Self))
        /\ get_message(redis, Self).type # "sentence"
        /\ redis' = get_left(redis, Self)
        /\ discarded' = Append(discarded, get_message(redis, Self))
        /\ current_message' = not_a_sentence(get_message(redis, Self))
     \/ /\ UNCHANGED <<redis, discarded>>
        /\ current_message' = None
  /\ qt' = "sleep"
  /\ UNCHANGED <<qt_exc, pq_exc, sa, sa_text, in_flight, is_streaming,
                 chunk_count,
                 sent, streamed, returns>>
  /\ NoFault
  /\ UNCHANGED dispatchRest

\* get raised QueueConnectionError / QueueOperationError: `except Exception`
PQ_get_error ==
  /\ QRunning /\ qt = "get"
  /\ current_message' = None
  /\ qt' = "sleep"
  /\ pq_exc' = "queue"
  /\ UNCHANGED <<redis, qt_exc, sa, sa_text, in_flight, is_streaming,
                 chunk_count, sent, streamed, discarded, returns>>
  /\ Fault
  /\ UNCHANGED dispatchRest

\* asyncio.sleep(0.1) is over; wait_for's TimeoutError (`continue`) likewise
\* leads back to the top of the loop
PQ_sleep ==
  /\ QRunning /\ qt = "sleep"
  /\ qt' = loop_top(is_running, cleanup_event, current_message)
  /\ current_message' = IF qt' = "done" THEN None ELSE current_message
  /\ UNCHANGED <<redis, qt_exc, pq_exc, sa, sa_text, in_flight, is_streaming,
                 chunk_count, sent, streamed, discarded, returns>>
  /\ NoFault
  /\ UNCHANGED dispatchRest

\* ------------------------------------ speech_generator.py: stream_audio
Call == Len(streamed)     \* the running stream_audio call, counted from 1

\* the `except Exception` handler's envelope
error_envelope_missing(text, call, n) == <<>>
error_envelope(text, call, n) ==
  <<Envelope("audio_stream_error", text, call, n)>>

\* `"total_chunks": chunk_count` of the end envelope
total_chunks_one_more(count) == count + 1
total_chunks(count) == count

SARunning == sa # "idle" /\ ~(qt = "stream_audio" /\ qt_cancel)

\* `finally`, then `return`: process_queue resumes, releases the message and
\* goes to the top of its loop
SA_return(how) ==
  /\ is_streaming' = FALSE
  /\ sa' = "idle"
  /\ in_flight' = in_flight - 1
  /\ returns' = Append(returns, how)
  /\ IF qt = "stream_audio"
     THEN LET cm == IF how = "True" THEN None
                    ELSE after_failure(current_message)
          IN /\ current_message' = cm
             /\ qt' = loop_top(is_running, cleanup_event, cm)
     ELSE UNCHANGED <<current_message, qt>>
  /\ UNCHANGED <<qt_exc, pq_exc>>

\* an exception leaves stream_audio (the handler's own send raised): `finally`,
\* then process_queue's handlers, lines 80-89, and its `finally`
SA_raise(kind) ==
  /\ is_streaming' = FALSE
  /\ sa' = "idle"
  /\ in_flight' = in_flight - 1
  /\ returns' = Append(returns, "raised")
  /\ IF qt = "stream_audio"
     THEN /\ current_message' = None
          /\ qt' = IF kind = "other" THEN "sleep" ELSE "done"
          /\ qt_exc' = (kind = "runtime")
          /\ pq_exc' = kind
     ELSE UNCHANGED <<current_message, qt, qt_exc, pq_exc>>

\* send_json(audio_stream_start)
SA_send_start ==
  /\ SARunning /\ sa = "send_start"
  /\ IF sock_open
     THEN /\ sent' = Append(sent, Envelope("audio_stream_start", sa_text, Call, 0))
          /\ sa' = "next_chunk"
     ELSE /\ sa' = "send_error"
          /\ UNCHANGED sent
  /\ UNCHANGED <<redis, qt, qt_exc, pq_exc, current_message, sa_text,
                 in_flight,
                 is_streaming, chunk_count, streamed, discarded, returns>>
  /\ NoFault
  /\ UNCHANGED dispatchRest

\* the provider's stream yields a chunk: `if not self.is_streaming: break`
SA_chunk ==
  /\ SARunning /\ sa = "next_chunk"
  /\ chunk_count < MaxChunks
  /\ IF is_streaming
     THEN /\ chunk_count' = chunk_count + 1
          /\ sa' = "send_chunk"
          /\ UNCHANGED <<qt, qt_exc, pq_exc, current_message, in_flight,
                         is_streaming,
                         returns>>
     ELSE /\ SA_return("stopped")
          /\ UNCHANGED chunk_count
  /\ UNCHANGED <<redis, sa_text, sent, streamed, discarded>>
  /\ NoFault
  /\ UNCHANGED dispatchRest

\* the provider's stream is exhausted: `if self.is_streaming:` send the end
SA_exhausted ==
  /\ SARunning /\ sa = "next_chunk"
  /\ IF is_streaming
     THEN /\ sa' = "send_end"
          /\ UNCHANGED <<qt, qt_exc, pq_exc, current_message, in_flight,
                         is_streaming,
                         returns>>
     ELSE SA_return("stopped")
  /\ UNCHANGED <<redis, sa_text, chunk_count, sent, streamed, discarded>>
  /\ NoFault
  /\ UNCHANGED dispatchRest

\* the synthesis provider raises: `except Exception`
SA_provider_error ==
  /\ SARunning /\ sa = "next_chunk"
  /\ sa' = "send_error"
  /\ UNCHANGED <<redis, qt, qt_exc, pq_exc, current_message, sa_text,
                 in_flight,
                 is_streaming, chunk_count, sent, streamed, discarded, returns>>
  /\ Fault
  /\ UNCHANGED dispatchRest

\* send_json(audio_chunk), then asyncio.sleep(0.01)
SA_send_chunk ==
  /\ SARunning /\ sa = "send_chunk"
  /\ IF sock_open
     THEN /\ sent' = Append(sent, Envelope("audio_chunk", sa_text, Call, chunk_count))
          /\ sa' = "next_chunk"
     ELSE /\ sa' = "send_error"
          /\ UNCHANGED sent
  /\ UNCHANGED <<redis, qt, qt_exc, pq_exc, current_message, sa_text,
                 in_flight,
                 is_streaming, chunk_count, streamed, discarded, returns>>
  /\ NoFault
  /\ UNCHANGED dispatchRest

\* send_json(audio_stream_end), then asyncio.sleep(0.1)
SA_send_end ==
  /\ SARunning /\ sa = "send_end"
  /\ IF sock_open
     THEN /\ sent' = Append(sent, Envelope("audio_stream_end", sa_text, Call,
                                           total_chunks(chunk_count)))
          /\ sa' = "end_sleep"
     ELSE /\ sa' = "send_error"
          /\ UNCHANGED sent
  /\ UNCHANGED <<redis, qt, qt_exc, pq_exc, current_message, sa_text,
                 in_flight,
                 is_streaming, chunk_count, streamed, discarded, returns>>
  /\ NoFault
  /\ UNCHANGED dispatchRest

\* the sleep after the end envelope is over: `return True`
SA_complete ==
  /\ SARunning /\ sa = "end_sleep"
  /\ SA_return("True")
  /\ UNCHANGED <<redis, sa_text, chunk_count, sent, streamed, discarded>>
  /\ NoFault
  /\ UNCHANGED dispatchRest

\* the handler's send_json(audio_stream_error), then `return False`
SA_send_error ==
  /\ SARunning /\ sa = "send_error"
  /\ IF sock_open
     THEN /\ sent' = sent \o error_envelope(sa_text, Call, chunk_count)
          /\ SA_return("False")
     ELSE /\ \E kind \in SendErrors : SA_raise(kind)
          /\ UNCHANGED sent
  /\ UNCHANGED <<redis, sa_text, chunk_count, streamed, discarded>>
  /\ NoFault
  /\ UNCHANGED dispatchRest

\* TextToSpeechHandler.stop_streaming: its broadcast goes through the
\* handler's own ConnectionManager, whose active_connections is empty
stop_streaming ==
  /\ is_streaming
  /\ is_streaming' = FALSE
  /\ UNCHANGED <<redis, qt, qt_exc, pq_exc, current_message, sa, sa_text,
                 in_flight,
                 chunk_count, sent, streamed, discarded, returns>>
  /\ Fault
  /\ UNCHANGED dispatchRest

\* ------------------------------------------- transcriber.py: callbacks
\* the transcript of the k-th final result of the session, as characters
Transcript(k) ==
  IF k = 1 THEN <<"H", "e", "l", "l", "o">>
  ELSE IF k = 2 THEN <<"w", "o", "r", "l", "d">>
  ELSE [i \in 1 .. k |-> "x"]

\* str.join: the elements of the list with sep between neighbours
join_concat(sep, list) ==
  LET J[i \in 0 .. Len(list)] ==
        IF i = 0 THEN <<>> ELSE J[i - 1] \o list[i]
  IN J[Len(list)]
join(sep, list) ==
  LET J[i \in 0 .. Len(list)] ==
        IF i = 0 THEN <<>>
        ELSE IF i = 1 THEN list[1]
        ELSE J[i - 1] \o sep \o list[i]
  IN J[Len(list)]

\* on_message with a non-empty final transcript: is_finals.append(sentence);
\* speech_final marks the utterance complete
on_message ==
  /\ dg_connection = "open" /\ ep = "wait"
  /\ nFinals < MaxFinals
  /\ nFinals' = nFinals + 1
  /\ is_finals' = Append(is_finals, Transcript(nFinals + 1))
  /\ \E speech_final \in BOOLEAN :
       /\ transcription_complete' = (speech_final \/ transcription_complete)
       /\ complete_at' = IF speech_final /\ ~transcription_complete
                         THEN Len(is_finals) + 1 ELSE complete_at
  /\ UNCHANGED <<redis, ep, ep_error, qt, qt_exc, qt_cancel, at, at_exc,
                 at_cancel, current_message, sa, sa_text, in_flight,
                 is_running, cleanup_event, is_streaming, chunk_count,
                 sock_open, active_connections, dg_connection, pr, sent,
                 putlog, streamed, discarded, returns, pq_exc, stop_seen, pa_exc,
                 emitted, put_failed, nUtt,
                 qlog, extVars, nFaults>>

\* ------------------------------------- stream_manager.py: process_audio
pa_loop_top(running, event) ==
  IF ~running \/ event THEN "fin_cleanup" ELSE "recv"

\* `await self.response_generator.process_response(...)`: the loop is
\* suspended in the call until the reply is enqueued
await_process_response(chunk) == "pr_send_start"

ARunning == at \notin {"none", "done"} /\ ~at_cancel

ingestRest == <<ep, ep_error, qt, qt_exc, qt_cancel, at_cancel,
                current_message, sa, sa_text, in_flight, is_running,
                cleanup_event, is_streaming, chunk_count, sock_open,
                active_connections, sent, streamed, discarded, returns, pq_exc, nFinals,
                qlog, extVars>>

\* receive_audio returned a chunk of bytes.  audio_chunk.size is read once,
\* by `if audio_chunk.size > 0` after the reply, and is chosen there.
PA_receive ==
  /\ ARunning /\ at = "recv"
  /\ sock_open
  /\ IF transcription_complete /\ Len(is_finals) > 0
     THEN /\ pr' = [utt |-> nUtt + 1, next |-> 0, any |-> FALSE]
          /\ nUtt' = nUtt + 1
          /\ emitted' = Append(emitted, [utterance |-> join(<<" ">>, is_finals),
                                         is_finals |-> is_finals,
                                         complete_at |-> complete_at])
          /\ \E size \in BOOLEAN : at' = await_process_response(size)
     ELSE /\ \E size \in BOOLEAN :
               at' = IF size THEN "transcribe"
                     ELSE pa_loop_top(is_running, cleanup_event)
          /\ UNCHANGED <<pr, nUtt, emitted>>
  /\ UNCHANGED <<redis, at_exc, dg_connection, is_finals,
                 transcription_complete, complete_at, putlog, stop_seen, pa_exc,
                 put_failed>>
  /\ NoFault
  /\ UNCHANGED ingestRest

\* receive_audio raised: the client closed the socket (WebSocketDisconnect),
\* or sent a text frame such as a stop directive, which receive_bytes cannot
\* return
PA_receive_raises ==
  /\ ARunning /\ at = "recv"
  /\ \/ /\ ~sock_open
        /\ UNCHANGED stop_seen
     \/ /\ sock_open
        /\ stop_seen' = TRUE
  /\ at' = "exc_cleanup"
  /\ pa_exc' = "receive"
  /\ UNCHANGED <<redis, at_exc, dg_connection, is_finals,
                 transcription_complete, complete_at, pr, putlog, put_failed, emitted,
                 nUtt>>
  /\ NoFault
  /\ UNCHANGED ingestRest

\* transcriber.transcribe: dg_connection.send, asyncio.sleep(0.05)
PA_transcribe ==
  /\ ARunning /\ at = "transcribe"
  /\ \/ /\ at' = pa_loop_top(is_running, cleanup_event)
        /\ NoFault
        /\ UNCHANGED pa_exc
     \/ /\ at' = "exc_cleanup"
        /\ pa_exc' = "transcribe"
        /\ Fault
  /\ UNCHANGED <<redis, at_exc, dg_connection, is_finals,
                 transcription_complete, complete_at, pr, putlog, stop_seen, put_failed,
                 emitted, nUtt>>
  /\ UNCHANGED ingestRest

\* `except Exception`: transcriber.cleanup(), then `break`; when cleanup
\* raises the exception leaves the loop.  Either way `finally` is next.
PA_except_cleanup ==
  /\ ARunning /\ at = "exc_cleanup"
  /\ \/ /\ dg_connection' = "finished"
        /\ at_exc' = FALSE
        /\ NoFault
     \/ /\ at_exc' = TRUE
        /\ Fault
        /\ UNCHANGED dg_connection
  /\ at' = "fin_cleanup"
  /\ UNCHANGED <<redis, is_finals, transcription_complete, complete_at, pr,
                 putlog, stop_seen, pa_exc, emitted, put_failed, nUtt>>
  /\ UNCHANGED ingestRest

\* `finally`: transcriber.cleanup(); the task is done
PA_finally_cleanup ==
  /\ ARunning /\ at = "fin_cleanup"
  /\ \/ /\ dg_connection' = "finished"
        /\ NoFault
        /\ UNCHANGED at_exc
     \/ /\ at_exc' = TRUE
        /\ Fault
        /\ UNCHANGED dg_connection
  /\ at' = "done"
  /\ UNCHANGED <<redis, is_finals, transcription_complete, complete_at, pr,
                 putlog, stop_seen, pa_exc, emitted, put_failed, nUtt>>
  /\ UNCHANGED ingestRest

\* ---------------------------- response_generator.py: process_response
\* process_response is over (returned, or its `except Exception` logged):
\* `await self.transcriber.reset()`, then `if audio_chunk.size > 0`
PR_return ==
  /\ is_finals' = <<>>
  /\ transcription_complete' = FALSE
  /\ complete_at' = 0
  /\ pr' = NoReply
  /\ \E size \in BOOLEAN :
       at' = IF size THEN "transcribe"
             ELSE pa_loop_top(is_running, cleanup_event)

PRRunning == pr # NoReply /\ ~at_cancel

\* send_json(response_generation_start)
PR_send_start ==
  /\ PRRunning /\ at = "pr_send_start"
  /\ IF sock_open
     THEN /\ at' = "pr_stream"
          /\ UNCHANGED <<is_finals, transcription_complete, complete_at, pr>>
     ELSE PR_return
  /\ UNCHANGED <<redis, at_exc, dg_connection, putlog, stop_seen, pa_exc,
                 emitted, put_failed,
                 nUtt>>
  /\ NoFault
  /\ UNCHANGED ingestRest

\* the reply stream yields a chunk; process_chunk finds a complete sentence
\* in it or not
PR_chunk ==
  /\ PRRunning /\ at = "pr_stream"
  /\ \/ /\ pr.next < MaxSent
        /\ pr' = [pr EXCEPT !.next = @ + 1, !.any = TRUE]
        /\ at' = "pr_put"
     \/ /\ ~pr.any
        /\ pr' = [pr EXCEPT !.any = TRUE]
        /\ at' = "pr_stream"
  /\ UNCHANGED <<redis, at_exc, dg_connection, is_finals,
                 transcription_complete, complete_at, putlog, stop_seen, pa_exc, emitted,
                 put_failed, nUtt>>
  /\ NoFault
  /\ UNCHANGED ingestRest

\* process_response's `except Exception` logs the exception and returns: it
\* does not reach process_audio
propagates_to_loop(exc) == TRUE
propagates(exc) == FALSE

\* queue_manager.put of the sentence: lpush, or the broker call raises
\* (QueueConnectionError) and process_response's `except Exception` ends the
\* reply
PR_put ==
  /\ PRRunning /\ at \in {"pr_put", "pr_put_remaining"}
  /\ \/ /\ redis' = put(redis, Self, Sentence(pr.utt, pr.next))
        /\ NoFault
        /\ putlog' = Append(putlog, <<pr.utt, pr.next>>)
        /\ IF at = "pr_put"
           THEN /\ at' = "pr_stream"
                /\ UNCHANGED <<is_finals, transcription_complete, complete_at, pr>>
           ELSE PR_return
        /\ UNCHANGED put_failed
     \/ /\ IF propagates("put")
           THEN /\ at' = "exc_cleanup"
                /\ pr' = NoReply
                /\ UNCHANGED <<is_finals, transcription_complete, complete_at>>
           ELSE PR_return
        /\ put_failed' = put_failed \cup {<<pr.utt, pr.next>>}
        /\ Fault
        /\ UNCHANGED <<redis, putlog>>
  /\ UNCHANGED <<at_exc, dg_connection, stop_seen, pa_exc, emitted, nUtt>>
  /\ UNCHANGED ingestRest

\* the reply stream is exhausted: `"".join(sentences)` raises when no chunk
\* came (sentences is unbound); else send_json(response_generation_complete)
PR_exhausted ==
  /\ PRRunning /\ at = "pr_stream"
  /\ IF pr.any
     THEN /\ at' = "pr_send_complete"
          /\ UNCHANGED <<is_finals, transcription_complete, complete_at, pr>>
     ELSE PR_return
  /\ UNCHANGED <<redis, at_exc, dg_connection, putlog, stop_seen, pa_exc,
                 emitted, put_failed,
                 nUtt>>
  /\ NoFault
  /\ UNCHANGED ingestRest

\* send_json(response_generation_complete), then processor.get_remaining()
PR_send_complete ==
  /\ PRRunning /\ at = "pr_send_complete"
  /\ \/ /\ sock_open /\ pr.next < MaxSent
        /\ pr' = [pr EXCEPT !.next = @ + 1]
        /\ at' = "pr_put_remaining"
        /\ UNCHANGED <<is_finals, transcription_complete, complete_at>>
     \/ PR_return
  /\ UNCHANGED <<redis, at_exc, dg_connection, putlog, stop_seen, pa_exc,
                 emitted, put_failed,
                 nUtt>>
  /\ NoFault
  /\ UNCHANGED ingestRest

\* --------------------------------- task.cancel(): CancelledError delivered
\* queue_task: stream_audio's `finally` when it was streaming, then
\* process_queue's `except asyncio.CancelledError` and `finally`
PQ_cancelled ==
  /\ qt_cancel /\ qt \notin {"none", "done"}
  /\ qt' = "done"
  /\ current_message' = None
  /\ IF qt = "stream_audio"
     THEN /\ is_streaming' = FALSE
          /\ sa' = "idle"
          /\ in_flight' = in_flight - 1
          /\ returns' = Append(returns, "cancelled")
     ELSE UNCHANGED <<is_streaming, sa, in_flight, returns>>
  /\ UNCHANGED <<redis, qt_exc, pq_exc, sa_text, chunk_count, sent, streamed, discarded>>
  /\ NoFault
  /\ UNCHANGED dispatchRest

\* audio_task: `except asyncio.CancelledError`, then `finally` awaits
\* transcriber.cleanup(); cancelled inside that `finally` the task just ends
PA_cancelled ==
  /\ at_cancel /\ at \notin {"none", "done"}
  /\ at' = IF at = "fin_cleanup" THEN "done" ELSE "fin_cleanup"
  /\ at_cancel' = (at = "fin_cleanup")
  /\ pr' = NoReply
  /\ UNCHANGED <<redis, ep, ep_error, qt, qt_exc, qt_cancel, at_exc,
                 current_message, sa, sa_text, in_flight, is_running,
                 cleanup_event, is_streaming, chunk_count, sock_open,
                 active_connections, dg_connection, is_finals,
                 transcription_complete, complete_at, sent, putlog, streamed, discarded,
                 returns, pq_exc, stop_seen, pa_exc, emitted, put_failed,
                 nUtt, nFinals, qlog, extVars, nFaults>>

\* ---------------------------- api/websocket.py: audio_websocket_endpoint
endpointRest == <<current_message, sa, sa_text, in_flight, is_streaming,
                  chunk_count, sock_open, is_finals, transcription_complete, complete_at,
                  pr, sent, putlog, streamed, discarded, returns, pq_exc, stop_seen,
                  pa_exc, emitted, put_failed,
                  nUtt, nFinals, qlog, extVars>>

\* manager.connect: websocket.accept(), active_connections.append
EP_connect ==
  /\ ep = "connect"
  /\ IF sock_open
     THEN /\ active_connections' = Append(active_connections, WS)
          /\ ep' = "initialize"
          /\ UNCHANGED ep_error
     ELSE /\ \E disconnect \in BOOLEAN : ep_error' = ~disconnect
          /\ ep' = "cancel_tasks"
          /\ UNCHANGED active_connections
  /\ UNCHANGED <<redis, qt, qt_exc, qt_cancel, at, at_exc, at_cancel,
                 is_running, cleanup_event, dg_connection>>
  /\ NoFault
  /\ UNCHANGED endpointRest

\* transcriber.initialize(), then both tasks are created and run to their
\* first await; the endpoint waits for the first of them to finish
EP_initialize ==
  /\ ep = "initialize"
  /\ \/ /\ dg_connection' = "open"
        /\ qt' = loop_top(is_running, cleanup_event, current_message)
        /\ at' = pa_loop_top(is_running, cleanup_event)
        /\ ep' = "wait"
        /\ NoFault
        /\ UNCHANGED ep_error
     \/ /\ dg_connection' = "unstarted"
        /\ Fault
        /\ ep_error' = TRUE
        /\ ep' = "cancel_tasks"
        /\ UNCHANGED <<qt, at>>
  /\ UNCHANGED <<redis, qt_exc, qt_cancel, at_exc, at_cancel, is_running,
                 cleanup_event, active_connections>>
  /\ UNCHANGED endpointRest

\* asyncio.wait(FIRST_COMPLETED) returned: `raise task.exception()` when a
\* finished task has one, which `except Exception` handles
EP_wait ==
  /\ ep = "wait"
  /\ qt = "done" \/ at = "done"
  /\ ep_error' = ((qt = "done" /\ qt_exc) \/ (at = "done" /\ at_exc))
  /\ ep' = "cancel_tasks"
  /\ UNCHANGED <<redis, qt, qt_exc, qt_cancel, at, at_exc, at_cancel,
                 is_running, cleanup_event, active_connections,
                 dg_connection>>
  /\ NoFault
  /\ UNCHANGED endpointRest

\* task.cancel() for a task that is not done
cancel(pc) == pc # "done"

\* stream_manager.cleanup()
sm_cleanup ==
  /\ is_running' = FALSE
  /\ cleanup_event' = TRUE

\* `finally`: cancel_tasks() cancels every task that is not done and gathers
EP_cancel_tasks ==
  /\ ep = "cancel_tasks"
  /\ IF qt = "none"
     THEN /\ sm_cleanup
          /\ ep' = "transcriber_cleanup"
          /\ UNCHANGED <<qt_cancel, at_cancel>>
     ELSE /\ qt_cancel' = cancel(qt)
          /\ at_cancel' = cancel(at)
          /\ ep' = "gather"
          /\ UNCHANGED <<is_running, cleanup_event>>
  /\ UNCHANGED <<redis, ep_error, qt, qt_exc, at, at_exc, active_connections,
                 dg_connection>>
  /\ NoFault
  /\ UNCHANGED endpointRest

\* `await asyncio.gather(*tasks, return_exceptions=True)` returns when every
\* task is done
gather_not_awaited(q, a) == TRUE
gather(q, a) == q = "done" /\ a = "done"

\* gather returned: tasks.clear(), then stream_manager.cleanup()
EP_gather ==
  /\ ep = "gather"
  /\ gather(qt, at)
  /\ sm_cleanup
  /\ ep' = "transcriber_cleanup"
  /\ UNCHANGED <<redis, ep_error, qt, qt_exc, qt_cancel, at, at_exc,
                 at_cancel, active_connections, dg_connection>>
  /\ NoFault
  /\ UNCHANGED endpointRest

\* transcriber.cleanup(): dg_connection.finish() when there is a connection;
\* an exception of a cleanup step ends the cleanup (`except Exception`)
EP_transcriber_cleanup ==
  /\ ep = "transcriber_cleanup"
  /\ \/ /\ dg_connection' = IF dg_connection = "none" THEN "none"
                            ELSE "finished"
        /\ ep' = "clear_queue"
        /\ NoFault
     \/ /\ dg_connection # "none"
        /\ ep' = "done"
        /\ Fault
        /\ UNCHANGED dg_connection
  /\ UNCHANGED <<redis, ep_error, qt, qt_exc, qt_cancel, at, at_exc,
                 at_cancel, is_running, cleanup_event, active_connections>>
  /\ UNCHANGED endpointRest

\* queue_manager.clear_user_queue(client_id)
EP_clear_queue ==
  /\ ep = "clear_queue"
  /\ \/ /\ redis' = clear_user_queue(redis, Self)
        /\ ep' = "disconnect"
        /\ NoFault
     \/ /\ ep' = "done"
        /\ Fault
        /\ UNCHANGED redis
  /\ UNCHANGED <<ep_error, qt, qt_exc, qt_cancel, at, at_exc, at_cancel,
                 is_running, cleanup_event, active_connections,
                 dg_connection>>
  /\ UNCHANGED endpointRest

\* list.remove(websocket): the first occurrence, ValueError when absent
remove(list, x) ==
  IF \E i \in 1 .. Len(list) : list[i] = x
  THEN LET i == CHOOSE i \in 1 .. Len(list) :
                  list[i] = x /\ \A j \in 1 .. i - 1 : list[j] # x
       IN SubSeq(list, 1, i - 1) \o SubSeq(list, i + 1, Len(list))
  ELSE list

\* manager.disconnect(websocket)
EP_disconnect ==
  /\ ep = "disconnect"
  /\ active_connections' = remove(active_connections, WS)
  /\ ep' = "done"
  /\ UNCHANGED <<redis, ep_error, qt, qt_exc, qt_cancel, at, at_exc,
                 at_cancel, is_running, cleanup_event, dg_connection>>
  /\ NoFault
  /\ UNCHANGED endpointRest

\* ------------------------------------------------------------ environment
\* the client closes the socket
ClientDisconnect ==
  /\ sock_open /\ ep \in {"connect", "initialize", "wait"}
  /\ sock_open' = FALSE
  /\ UNCHANGED <<redis, ep, ep_error, qt, qt_exc, qt_cancel, at, at_exc,
                 at_cancel, current_message, sa, sa_text, in_flight,
                 is_running, cleanup_event, is_streaming, chunk_count,
                 active_connections, dg_connection, is_finals,
                 transcription_complete, complete_at, pr, sent, putlog,
                 streamed, discarded, returns, pq_exc, stop_seen, pa_exc, emitted,
                 put_failed, nUtt, nFinals, qlog, extVars, nFaults>>

\* another producer puts a message under the session's client id
ExternalPut ==
  /\ ep = "wait"
  /\ Fault
  /\ \E m \in ExtMessages : redis' = put(redis, Self, m)
  /\ UNCHANGED <<ep, ep_error, qt, qt_exc, qt_cancel, at, at_exc,
                 at_cancel, current_message, sa, sa_text, in_flight,
                 is_running, cleanup_event, is_streaming, chunk_count,
                 sock_open, active_connections, dg_connection, is_finals,
                 transcription_complete, complete_at, pr, sent, putlog,
                 streamed, discarded, returns, pq_exc, stop_seen, pa_exc, emitted,
                 put_failed, nUtt, nFinals, qlog, extVars>>

Next ==
  \/ EP_connect \/ EP_initialize \/ EP_wait \/ EP_cancel_tasks \/ EP_gather
  \/ EP_transcriber_cleanup \/ EP_clear_queue \/ EP_disconnect
  \/ PQ_get_sentence \/ PQ_get_blank \/ PQ_get_other \/ PQ_get_error
  \/ PQ_sleep \/ PQ_cancelled
  \/ SA_send_start \/ SA_chunk \/ SA_exhausted \/ SA_provider_error
  \/ SA_send_chunk \/ SA_send_end \/ SA_complete \/ SA_send_error
  \/ stop_streaming
  \/ on_message
  \/ PA_receive \/ PA_receive_raises \/ PA_transcribe \/ PA_except_cleanup
  \/ PA_finally_cleanup \/ PA_cancelled
  \/ PR_send_start \/ PR_chunk \/ PR_put \/ PR_exhausted \/ PR_send_complete
  \/ ClientDisconnect \/ ExternalPut

Spec == Init /\ [][Next]_vars

\* ----------------------------------- the queue alone, for several clients
\* QueueManager.put(user_id, message): every message of a run is distinct
Q_put ==
  /\ qlog.ops < MaxOps
  /\ \E c \in Clients :
       LET m == Sentence(qlog.ops + 1, 1)
       IN /\ redis' = put(redis, c, m)
          /\ qlog' = [log |-> [qlog.log EXCEPT ![c].puts = Append(@, m),
                                                ![c].cleared = FALSE],
                      ops |-> qlog.ops + 1]
  /\ UNCHANGED <<sessionVars, extVars>>

\* QueueManager.get(user_id): brpop returns the message at the right end,
\* or nothing within the timeout when the list is empty
Q_get ==
  /\ qlog.ops < MaxOps
  /\ \E c \in Clients :
       IF brpop_ready(redis, get_queue_key(c))
       THEN /\ redis' = get_left(redis, c)
            /\ qlog' = [log |-> [qlog.log EXCEPT
                                   ![c].gets = Append(@, get_message(redis,
                                   c)),
                                   ![c].last = get_message(redis, c)],
                        ops |-> qlog.ops + 1]
       ELSE /\ qlog' = [log |-> [qlog.log EXCEPT ![c].last = None,
                                                  ![c].empty = @ + 1],
                        ops |-> qlog.ops + 1]
            /\ UNCHANGED redis
  /\ UNCHANGED <<sessionVars, extVars>>

\* QueueManager.clear_user_queue(user_id); the client's history starts anew
Q_clear ==
  /\ qlog.ops < MaxOps
  /\ \E c \in Clients :
       /\ redis' = clear_user_queue(redis, c)
       /\ qlog' = [log |-> [qlog.log EXCEPT
                              ![c] = [NoLog[c] EXCEPT
                                        !.cleared = TRUE,
                                        !.dropped = get_length(redis, c)]],
                   ops |-> qlog.ops + 1]
  /\ UNCHANGED <<sessionVars, extVars>>

NextQueue == Q_put \/ Q_get \/ Q_clear

SpecQueue == Init /\ [][NextQueue]_vars

\* ------------------- the dispatch path alone, three sentences enqueued
\* A session in its steady state: connected, both tasks at the top of their
\* loops, and the sentences A, B of a first reply and C of a second one put
\* in that order and not yet taken.  Providers and broker do not fail.
Enqueued == <<Sentence(1, 1), Sentence(1, 2), Sentence(2, 1)>>

InitDispatch ==
  /\ redis = put(put(put([k \in Keys |-> <<>>], Self, Enqueued[1]),
                     Self, Enqueued[2]), Self, Enqueued[3])
  /\ qlog = [log |-> NoLog, ops |-> 0]
  /\ InitExt
  /\ ep = "wait" /\ ep_error = FALSE
  /\ qt = "get" /\ qt_exc = FALSE /\ qt_cancel = FALSE
  /\ at = "recv" /\ at_exc = FALSE /\ at_cancel = FALSE
  /\ current_message = None
  /\ sa = "idle" /\ sa_text = BlankText /\ in_flight = 0
  /\ is_running = TRUE /\ cleanup_event = FALSE
  /\ is_streaming = FALSE /\ chunk_count = 0
  /\ sock_open = TRUE
  /\ active_connections = <<WS>>
  /\ dg_connection = "open"
  /\ is_finals = <<>> /\ transcription_complete = FALSE
  /\ complete_at = 0
  /\ pr = NoReply
  /\ sent = <<>>
  /\ putlog = [i \in 1 .. 3 |-> Enqueued[i].content]
  /\ streamed = <<>> /\ returns = <<>>
  /\ discarded = <<>>
  /\ pq_exc = "none" /\ stop_seen = FALSE
  /\ pa_exc = "none" /\ put_failed = {} /\ emitted = <<>>
  /\ nUtt = 2 /\ nFinals = MaxFinals /\ nFaults = MaxFaults

NextDispatch ==
  \/ PQ_get_sentence \/ PQ_get_other \/ PQ_sleep
  \/ SA_send_start \/ SA_chunk \/ SA_exhausted \/ SA_send_chunk
  \/ SA_send_end \/ SA_complete
  \/ PA_receive \/ PA_transcribe

SpecDispatch == InitDispatch /\ [][NextDispatch]_vars

\* ------------------- the ingest path of a session in its steady state
\* Connected, both tasks at the top of their loops, nothing queued, no final
\* transcript yet.  Providers and broker do not fail and nobody disconnects;
\* whether the client sends another audio chunk is up to the client.
InitIngest ==
  /\ redis = [k \in Keys |-> <<>>]
  /\ qlog = [log |-> NoLog, ops |-> 0]
  /\ InitExt
  /\ ep = "wait" /\ ep_error = FALSE
  /\ qt = "get" /\ qt_exc = FALSE /\ qt_cancel = FALSE
  /\ at = "recv" /\ at_exc = FALSE /\ at_cancel = FALSE
  /\ current_message = None
  /\ sa = "idle" /\ sa_text = BlankText /\ in_flight = 0
  /\ is_running = TRUE /\ cleanup_event = FALSE
  /\ is_streaming = FALSE /\ chunk_count = 0
  /\ sock_open = TRUE
  /\ active_connections = <<WS>>
  /\ dg_connection = "open"
  /\ is_finals = <<>> /\ transcription_complete = FALSE
  /\ complete_at = 0
  /\ pr = NoReply
  /\ sent = <<>>
  /\ putlog = <<>>
  /\ streamed = <<>> /\ returns = <<>>
  /\ discarded = <<>>
  /\ pq_exc = "none" /\ stop_seen = FALSE
  /\ pa_exc = "none" /\ put_failed = {} /\ emitted = <<>>
  /\ nUtt = 0 /\ nFinals = 0 /\ nFaults = MaxFaults

\* what the dispatch task and the ingest task do by themselves ...
DispatchSteps ==
  \/ PQ_get_sentence \/ PQ_get_other \/ PQ_sleep
  \/ SA_send_start \/ SA_chunk \/ SA_exhausted \/ SA_send_chunk
  \/ SA_send_end \/ SA_complete
IngestSteps ==
  \/ PA_transcribe
  \/ PR_send_start \/ PR_chunk \/ PR_put \/ PR_exhausted \/ PR_send_complete

\* ... and what the transcription provider and the client do
NextIngest == DispatchSteps \/ IngestSteps \/ on_message \/ PA_receive

SpecIngest == InitIngest /\ [][NextIngest]_vars

\* the event loop runs every task that can run; the provider and the client
\* owe nothing
SpecIngestFair ==
  SpecIngest /\ WF_vars(DispatchSteps) /\ WF_vars(IngestSteps)

\* ------------------- utils/redis_manager.py: WebSocket registry, heartbeat
otherVars == <<redis, qlog, sessionVars, segVars, vaVars, spVars>>
registryRest == <<redis_client, connection_lock, max_retries, starts,
                  monitors, otherVars>>

\* `client_id in self.active_websockets`
registered(aw, client_id) == aw[client_id] # NoSocket

\* `del self.active_websockets[client_id]`, for a key that is present
del_kept(aw, client_id) == aw
del(aw, client_id) == [aw EXCEPT ![client_id] = NoSocket]

\* unregister_websocket's outer `except Exception` logs whatever was raised
\* inside and returns
unregister_catches_nothing(exc) == FALSE
unregister_catches(exc) == TRUE

\* unregister_websocket for an id that is not in active_websockets: returns
unregister_noop(client_id) ==
  /\ unreg_returns' = [unreg_returns EXCEPT ![client_id] = @ + 1]
  /\ UNCHANGED <<active_websockets, key_errors, escaped>>

\* unregister_websocket after `await websocket.close()` returned or raised:
\* `finally: del self.active_websockets[client_id]`, a KeyError when another
\* call removed the id in the meantime; then the call returns
unregister_finally(client_id) ==
  /\ IF registered(active_websockets, client_id)
     THEN /\ active_websockets' = del(active_websockets, client_id)
          /\ UNCHANGED <<key_errors, escaped>>
     ELSE /\ UNCHANGED active_websockets
          /\ IF unregister_catches("KeyError")
             THEN /\ key_errors' = key_errors + 1
                  /\ UNCHANGED escaped
             ELSE /\ escaped' = escaped \cup {"KeyError"}
                  /\ UNCHANGED key_errors
  /\ unreg_returns' = [unreg_returns EXCEPT ![client_id] = @ + 1]

\* register_websocket(client_id, websocket) is called and awaits
\* websocket.accept(); every call brings its own WebSocket object
RW_call(i) ==
  /\ regs[i].pc = "none"
  /\ i > 1 => regs[i - 1].pc # "none"
  /\ \E c \in Clients : regs' = [regs EXCEPT ![i] = [client |-> c,
                                                     pc |-> "accept"]]
  /\ UNCHANGED <<active_websockets, stop_event, hb, ext, stp, unreg_returns,
                 key_errors, escaped>>
  /\ UNCHANGED registryRest

\* accept() returned: the entry is assigned and a heartbeat task is created
RW_accepted(i) ==
  /\ regs[i].pc = "accept"
  /\ active_websockets' = [active_websockets EXCEPT ![regs[i].client] = i]
  /\ hb' = [hb EXCEPT ![i] = [client |-> regs[i].client, pc |-> "loop",
                              failed |-> FALSE, sock |-> NoSocket,
                              closes |-> NoSocket, removed |-> NoSocket]]
  /\ regs' = [regs EXCEPT ![i].pc = "done"]
  /\ UNCHANGED <<stop_event, ext, stp, unreg_returns, key_errors, escaped>>
  /\ UNCHANGED registryRest

\* accept() raised WebSocketDisconnect: unregister_websocket(client_id), which
\* awaits the close of the socket registered under the id, if there is one
RW_disconnected(i) ==
  /\ regs[i].pc = "accept"
  /\ IF registered(active_websockets, regs[i].client)
     THEN /\ regs' = [regs EXCEPT ![i].pc = "close"]
          /\ UNCHANGED <<active_websockets, unreg_returns, key_errors,
                         escaped>>
     ELSE /\ regs' = [regs EXCEPT ![i].pc = "done"]
          /\ unregister_noop(regs[i].client)
  /\ UNCHANGED <<stop_event, hb, ext, stp>>
  /\ UNCHANGED registryRest

\* accept() raised another exception: WebSocketError is raised
RW_failed(i) ==
  /\ regs[i].pc = "accept"
  /\ regs' = [regs EXCEPT ![i].pc = "raised"]
  /\ UNCHANGED <<active_websockets, stop_event, hb, ext, stp, unreg_returns,
                 key_errors, escaped>>
  /\ UNCHANGED registryRest

\* the close awaited by register_websocket's unregister call is over
RW_close(i) ==
  /\ regs[i].pc = "close"
  /\ unregister_finally(regs[i].client)
  /\ regs' = [regs EXCEPT ![i].pc = "done"]
  /\ UNCHANGED <<stop_event, hb, ext, stp>>
  /\ UNCHANGED registryRest

\* _websocket_heartbeat: the `while` condition; the task ends when the id is
\* gone or stop_event is set, else it reads the socket registered under the
\* id, `websocket = self.active_websockets[client_id]`, and awaits
\* websocket.send_text("heartbeat") on it
HB_loop(i) ==
  /\ hb[i].pc = "loop"
  /\ IF registered(active_websockets, hb[i].client) /\ ~stop_event
     THEN hb' = [hb EXCEPT ![i].pc = "send",
                           ![i].sock = active_websockets[hb[i].client]]
     ELSE hb' = [hb EXCEPT ![i].pc = "done"]
  /\ UNCHANGED <<active_websockets, stop_event, regs, ext, stp,
                 unreg_returns, key_errors, escaped>>
  /\ UNCHANGED registryRest

\* send_text returned: asyncio.sleep(heartbeat_interval)
HB_sent(i) ==
  /\ hb[i].pc = "send"
  /\ hb' = [hb EXCEPT ![i].pc = "sleep"]
  /\ UNCHANGED <<active_websockets, stop_event, regs, ext, stp,
                 unreg_returns, key_errors, escaped>>
  /\ UNCHANGED registryRest

\* the sleep is over
HB_wake(i) ==
  /\ hb[i].pc = "sleep"
  /\ hb' = [hb EXCEPT ![i].pc = "loop"]
  /\ UNCHANGED <<active_websockets, stop_event, regs, ext, stp,
                 unreg_returns, key_errors, escaped>>
  /\ UNCHANGED registryRest

\* send_text raised: `except Exception` awaits unregister_websocket(client_id)
\* and breaks; the call returns at once when the id is not registered, else
\* it awaits the close of the socket it finds under the id
HB_send_failed(i) ==
  /\ hb[i].pc = "send"
  /\ IF registered(active_websockets, hb[i].client)
     THEN /\ hb' = [hb EXCEPT ![i].pc = "close", ![i].failed = TRUE,
                              ![i].closes = active_websockets[hb[i].client]]
          /\ UNCHANGED <<active_websockets, unreg_returns, key_errors,
                         escaped>>
     ELSE /\ hb' = [hb EXCEPT ![i].pc = "done", ![i].failed = TRUE]
          /\ unregister_noop(hb[i].client)
  /\ UNCHANGED <<stop_event, regs, ext, stp>>
  /\ UNCHANGED registryRest

\* the close awaited by the heartbeat's unregister call is over: the entry
\* that is under the id now is deleted; `break`
HB_close(i) ==
  /\ hb[i].pc = "close"
  /\ unregister_finally(hb[i].client)
  /\ hb' = [hb EXCEPT ![i].pc = "done",
                      ![i].removed = active_websockets[hb[i].client]]
  /\ UNCHANGED <<stop_event, regs, ext, stp>>
  /\ UNCHANGED registryRest

HB_step(i) ==
  HB_loop(i) \/ HB_sent(i) \/ HB_wake(i) \/ HB_send_failed(i) \/ HB_close(i)

\* unregister_websocket(client_id) called by other code, for any id
UW_call(i) ==
  /\ ext[i].pc = "none"
  /\ i > 1 => ext[i - 1].pc # "none"
  /\ \E c \in Clients :
       IF registered(active_websockets, c)
       THEN /\ ext' = [ext EXCEPT ![i] = [client |-> c, pc |-> "close"]]
            /\ UNCHANGED <<active_websockets, unreg_returns, key_errors,
                           escaped>>
       ELSE /\ ext' = [ext EXCEPT ![i] = [client |-> c, pc |-> "done"]]
            /\ unregister_noop(c)
  /\ UNCHANGED <<stop_event, regs, hb, stp>>
  /\ UNCHANGED registryRest

UW_close(i) ==
  /\ ext[i].pc = "close"
  /\ unregister_finally(ext[i].client)
  /\ ext' = [ext EXCEPT ![i].pc = "done"]
  /\ UNCHANGED <<stop_event, regs, hb, stp>>
  /\ UNCHANGED registryRest

\* stop(): stop_event.set(), then a loop over list(active_websockets.keys())
STOP_call ==
  /\ stp.pc = "none"
  /\ stop_event' = TRUE
  /\ stp' = [pc |-> "iter", cur |-> NoClient,
             keys |-> {c \in Clients : registered(active_websockets, c)}]
  /\ UNCHANGED <<active_websockets, regs, hb, ext, unreg_returns,
                 key_errors, escaped>>
  /\ UNCHANGED registryRest

\* the next id of the list: await unregister_websocket(client_id)
STOP_next ==
  /\ stp.pc = "iter" /\ stp.keys # {}
  /\ \E c \in stp.keys :
       IF registered(active_websockets, c)
       THEN /\ stp' = [pc |-> "close", cur |-> c, keys |-> stp.keys \ {c}]
            /\ UNCHANGED <<active_websockets, unreg_returns, key_errors,
                           escaped>>
       ELSE /\ stp' = [stp EXCEPT !.keys = @ \ {c}]
            /\ unregister_noop(c)
  /\ UNCHANGED <<stop_event, regs, hb, ext>>
  /\ UNCHANGED registryRest

STOP_close ==
  /\ stp.pc = "close"
  /\ unregister_finally(stp.cur)
  /\ stp' = [stp EXCEPT !.pc = "iter", !.cur = NoClient]
  /\ UNCHANGED <<stop_event, regs, hb, ext>>
  /\ UNCHANGED registryRest

\* the list is exhausted: redis_client.close() and redis_client = None
STOP_finish ==
  /\ stp.pc = "iter" /\ stp.keys = {}
  /\ stp' = [stp EXCEPT !.pc = "done"]
  /\ redis_client' = "none"
  /\ UNCHANGED <<active_websockets, stop_event, regs, hb, ext,
                 unreg_returns, key_errors, escaped>>
  /\ UNCHANGED <<connection_lock, max_retries, starts, monitors, otherVars>>

InitRedisManager ==
  /\ redis = [k \in Keys |-> <<>>]
  /\ qlog = [log |-> NoLog, ops |-> 0]
  /\ InitSession
  /\ \E config \in Configs : InitManager(config)
  /\ InitSegmenter(NoChunk, [k \in 1 .. MaxFrames |-> "silence"])
  /\ InitAssistant
  /\ InitProcessor("none")

NextRegistry ==
  \/ \E i \in 1 .. MaxRegisters :
       \/ RW_call(i) \/ RW_accepted(i) \/ RW_disconnected(i)
       \/ RW_failed(i) \/ RW_close(i)
       \/ HB_step(i)
  \/ \E i \in 1 .. MaxUnregisters : UW_call(i) \/ UW_close(i)
  \/ STOP_call \/ STOP_next \/ STOP_close \/ STOP_finish

SpecRegistry == InitRedisManager /\ [][NextRegistry]_vars

\* the heartbeat tasks are scheduled: a task that can run does run
SpecRegistryFair ==
  SpecRegistry /\ \A i \in 1 .. MaxRegisters : WF_vars(HB_step(i))

\* --------------- utils/redis_manager.py: connect_redis, start, the monitor
reconnectRest == <<active_websockets, regs, hb, ext, unreg_returns,
                   key_errors, escaped, max_retries, otherVars>>

\* connect_redis: `while max_retries == -1 or retries < max_retries`
retry(config, retries) == config = -1 \/ retries < config

\* `retries += 1`; with max_retries == -1 the loop never reads the counter,
\* and above RetryCap its value is no longer told apart
count(retries) == IF retries < RetryCap THEN retries + 1 ELSE retries

\* a call of connect_redis is between its first attempt and its return
connecting(x) == x.pc \in {"ping", "retry_sleep"}

\* start() is called, by a caller that awaits each call: stop_event.clear(),
\* then connect_redis up to its first ping (or its return of False when the
\* loop is not entered, which start turns into RedisConnectionError)
START_call(i) ==
  /\ starts[i].pc = "none"
  /\ i > 1 => starts[i - 1].pc \in {"done", "raised"}
  /\ stop_event' = FALSE
  /\ IF retry(max_retries, 0)
     THEN /\ starts' = [starts EXCEPT ![i].pc = "ping"]
          /\ redis_client' = "client"
     ELSE /\ starts' = [starts EXCEPT ![i].pc = "raised",
                                      ![i].result = "False"]
          /\ UNCHANGED redis_client
  /\ UNCHANGED <<connection_lock, monitors, stp>>
  /\ UNCHANGED reconnectRest

\* ping() returned: connect_redis returns True and start creates the
\* monitor task
START_connected(i) ==
  /\ starts[i].pc = "ping"
  /\ starts' = [starts EXCEPT ![i].pc = "done", ![i].result = "True"]
  /\ monitors' = [monitors EXCEPT ![i].pc = "loop"]
  /\ UNCHANGED <<stop_event, redis_client, connection_lock, stp>>
  /\ UNCHANGED reconnectRest

\* ping() raised redis.ConnectionError: count, log, sleep retry_interval
START_refused(i) ==
  /\ starts[i].pc = "ping"
  /\ starts' = [starts EXCEPT ![i].pc = "retry_sleep",
                              ![i].retries = count(@)]
  /\ UNCHANGED <<stop_event, redis_client, connection_lock, monitors, stp>>
  /\ UNCHANGED reconnectRest

\* ping() raised another exception: connect_redis returns False and start
\* raises RedisConnectionError
START_error(i) ==
  /\ starts[i].pc = "ping"
  /\ starts' = [starts EXCEPT ![i].pc = "raised", ![i].result = "False"]
  /\ UNCHANGED <<stop_event, redis_client, connection_lock, monitors, stp>>
  /\ UNCHANGED reconnectRest

\* the sleep is over: the next attempt, or "Max Redis connection retries
\* reached" and False
START_retry(i) ==
  /\ starts[i].pc = "retry_sleep"
  /\ IF retry(max_retries, starts[i].retries)
     THEN /\ starts' = [starts EXCEPT ![i].pc = "ping"]
          /\ redis_client' = "client"
     ELSE /\ starts' = [starts EXCEPT ![i].pc = "raised",
                                      ![i].result = "False"]
          /\ UNCHANGED redis_client
  /\ UNCHANGED <<stop_event, connection_lock, monitors, stp>>
  /\ UNCHANGED reconnectRest

START_step(i) ==
  \/ START_call(i) \/ START_connected(i) \/ START_refused(i)
  \/ START_error(i) \/ START_retry(i)

\* ensure_connection with the lock taken: check_redis_connection pings when
\* there is a client; without one it returns False and connect_redis begins
locked_check(i) ==
  /\ IF redis_client # "none"
     THEN /\ monitors' = [monitors EXCEPT ![i].pc = "check"]
          /\ connection_lock' = i
          /\ UNCHANGED redis_client
     ELSE IF retry(max_retries, 0)
     THEN /\ monitors' = [monitors EXCEPT ![i].pc = "ping",
                                          ![i].retries = 0]
          /\ connection_lock' = i
          /\ redis_client' = "client"
     ELSE /\ monitors' = [monitors EXCEPT ![i].pc = "loop"]
          /\ UNCHANGED <<connection_lock, redis_client>>

\* _monitor_connection: `while not stop_event.is_set()`, ensure_connection
\* takes the lock or waits for it
MON_loop(i) ==
  /\ monitors[i].pc = "loop"
  /\ IF stop_event
     THEN /\ monitors' = [monitors EXCEPT ![i].pc = "done"]
          /\ UNCHANGED <<connection_lock, redis_client>>
     ELSE IF connection_lock = 0
     THEN locked_check(i)
     ELSE /\ monitors' = [monitors EXCEPT ![i].pc = "acquire"]
          /\ UNCHANGED <<connection_lock, redis_client>>
  /\ UNCHANGED <<stop_event, starts, stp>>
  /\ UNCHANGED reconnectRest

\* the lock was released and this waiter gets it
MON_acquire(i) ==
  /\ monitors[i].pc = "acquire" /\ connection_lock = 0
  /\ locked_check(i)
  /\ UNCHANGED <<stop_event, starts, stp>>
  /\ UNCHANGED reconnectRest

\* the ping of check_redis_connection returned: the lock is released and the
\* monitor sleeps heartbeat_interval
MON_healthy(i) ==
  /\ monitors[i].pc = "check"
  /\ monitors' = [monitors EXCEPT ![i].pc = "idle"]
  /\ connection_lock' = 0
  /\ UNCHANGED <<stop_event, redis_client, starts, stp>>
  /\ UNCHANGED reconnectRest

\* the ping of check_redis_connection raised: "Redis connection lost",
\* connect_redis begins under the lock
MON_lost(i) ==
  /\ monitors[i].pc = "check"
  /\ IF retry(max_retries, 0)
     THEN /\ monitors' = [monitors EXCEPT ![i].pc = "ping", ![i].retries = 0]
          /\ redis_client' = "client"
          /\ UNCHANGED connection_lock
     ELSE /\ monitors' = [monitors EXCEPT ![i].pc = "loop"]
          /\ connection_lock' = 0
          /\ UNCHANGED redis_client
  /\ UNCHANGED <<stop_event, starts, stp>>
  /\ UNCHANGED reconnectRest

\* connect_redis returned True: the lock is released, the monitor sleeps
MON_connected(i) ==
  /\ monitors[i].pc = "ping"
  /\ monitors' = [monitors EXCEPT ![i].pc = "idle"]
  /\ connection_lock' = 0
  /\ UNCHANGED <<stop_event, redis_client, starts, stp>>
  /\ UNCHANGED reconnectRest

MON_refused(i) ==
  /\ monitors[i].pc = "ping"
  /\ monitors' = [monitors EXCEPT ![i].pc = "retry_sleep",
                                  ![i].retries = count(@)]
  /\ UNCHANGED <<stop_event, redis_client, connection_lock, starts, stp>>
  /\ UNCHANGED reconnectRest

\* connect_redis returned False: ensure_connection raises
\* RedisConnectionError, the lock is released, the monitor logs and loops
MON_error(i) ==
  /\ monitors[i].pc = "ping"
  /\ monitors' = [monitors EXCEPT ![i].pc = "loop"]
  /\ connection_lock' = 0
  /\ UNCHANGED <<stop_event, redis_client, starts, stp>>
  /\ UNCHANGED reconnectRest

MON_retry(i) ==
  /\ monitors[i].pc = "retry_sleep"
  /\ IF retry(max_retries, monitors[i].retries)
     THEN /\ monitors' = [monitors EXCEPT ![i].pc = "ping"]
          /\ redis_client' = "client"
          /\ UNCHANGED connection_lock
     ELSE /\ monitors' = [monitors EXCEPT ![i].pc = "loop"]
          /\ connection_lock' = 0
          /\ UNCHANGED redis_client
  /\ UNCHANGED <<stop_event, starts, stp>>
  /\ UNCHANGED reconnectRest

\* asyncio.sleep(heartbeat_interval) is over
MON_wake(i) ==
  /\ monitors[i].pc = "idle"
  /\ monitors' = [monitors EXCEPT ![i].pc = "loop"]
  /\ UNCHANGED <<stop_event, redis_client, connection_lock, starts, stp>>
  /\ UNCHANGED reconnectRest

MON_step(i) ==
  \/ MON_loop(i) \/ MON_acquire(i) \/ MON_healthy(i) \/ MON_lost(i)
  \/ MON_connected(i) \/ MON_refused(i) \/ MON_error(i) \/ MON_retry(i)
  \/ MON_wake(i)

NextReconnect ==
  \/ \E i \in 1 .. MaxStarts : START_step(i) \/ MON_step(i)
  \/ STOP_call \/ STOP_finish

SpecReconnect == InitRedisManager /\ [][NextReconnect]_vars

\* start() and the monitor tasks are scheduled
SpecReconnectFair ==
  SpecReconnect
    /\ \A i \in 1 .. MaxStarts : WF_vars(START_step(i)) /\ WF_vars(MON_step(i))

\* ----------------------------------- utils/silence_detector.py: WebRTCVAD
\* len(audio_chunk) in bytes, and the number of int16 samples
len(chunk) ==
  LET S[k \in 0 .. Len(chunk.runs)] ==
        IF k = 0 THEN 0 ELSE S[k - 1] + 2 * chunk.runs[k].n
  IN S[Len(chunk.runs)] + (IF chunk.odd THEN 1 ELSE 0)
samples(chunk) == len(chunk) \div 2

\* split_into_frames: for i in range(0, len, frame_size) the slice
\* [i : i + frame_size], kept when it has frame_size bytes; a frame is
\* written as its pair of byte offsets
Min(a, b) == IF a < b THEN a ELSE b
split_keeps_partial(length) ==
  LET nslices == (length + frame_size - 1) \div frame_size
  IN [k \in 1 .. nslices |->
        <<(k - 1) * frame_size, Min(k * frame_size, length)>>]
split_into_frames(length) ==
  LET nslices == (length + frame_size - 1) \div frame_size
      slice(k) == <<(k - 1) * frame_size, Min(k * frame_size, length)>>
      kept == {k \in 1 .. nslices : slice(k)[2] - slice(k)[1] = frame_size}
  IN [k \in 1 .. Cardinality(kept) |->
        slice(CHOOSE j \in kept : Cardinality({i \in kept : i < j}) = k - 1)]

\* is_speech: the frames in order, True at the first one the model calls
\* speech; an exception of the model is logged and gives False
is_speech(frames, model) ==
  LET n == Min(Len(frames), MaxFrames)
      S[k \in 1 .. n + 1] ==
        IF k > n THEN FALSE
        ELSE IF model[k] = "raise" THEN FALSE
        ELSE IF model[k] = "speech" THEN TRUE
        ELSE S[k + 1]
  IN S[1]

\* int16 arithmetic: the square of an int16 array is an int16 array
int16(x) ==
  LET m == x % 65536 IN IF m >= 32768 THEN m - 65536 ELSE m

\* np.sum(audio**2) as np.mean accumulates it, in float64 over int16 squares
sum_squares(chunk) ==
  LET S[k \in 0 .. Len(chunk.runs)] ==
        IF k = 0 THEN 0
        ELSE S[k - 1]
             + chunk.runs[k].n * int16(chunk.runs[k].v * chunk.runs[k].v)
  IN S[Len(chunk.runs)]

\* is_low_energy: np.frombuffer raises ValueError for an odd number of
\* bytes; the mean of no samples and the root of a negative mean are nan,
\* and nan < threshold is False; else sqrt(mean) < threshold
is_low_energy(chunk) ==
  IF chunk.odd THEN "raise"
  ELSE IF samples(chunk) = 0 \/ sum_squares(chunk) < 0 THEN "False"
  ELSE IF sum_squares(chunk) * ThresholdDen * ThresholdDen
            < ThresholdNum * ThresholdNum * samples(chunk)
  THEN "True" ELSE "False"

segmenterRest == <<redis, qlog, sessionVars, rmVars, vaVars, spVars,
                   audio_chunk, verdicts>>

SEG_split_into_frames ==
  /\ "split_into_frames" \notin called
  /\ called' = called \cup {"split_into_frames"}
  /\ frames_out' = split_into_frames(len(audio_chunk))
  /\ UNCHANGED <<speech_out, energy_out>>
  /\ UNCHANGED segmenterRest

SEG_is_speech ==
  /\ "is_speech" \notin called
  /\ called' = called \cup {"is_speech"}
  /\ speech_out' =
       IF is_speech(split_into_frames(len(audio_chunk)), verdicts)
       THEN "True" ELSE "False"
  /\ UNCHANGED <<frames_out, energy_out>>
  /\ UNCHANGED segmenterRest

SEG_is_low_energy ==
  /\ "is_low_energy" \notin called
  /\ called' = called \cup {"is_low_energy"}
  /\ energy_out' = is_low_energy(audio_chunk)
  /\ UNCHANGED <<frames_out, speech_out>>
  /\ UNCHANGED segmenterRest

InitSegmenterInputs ==
  /\ redis = [k \in Keys |-> <<>>]
  /\ qlog = [log |-> NoLog, ops |-> 0]
  /\ InitSession
  /\ InitManager(MainMaxRetries)
  /\ \E chunk \in Chunks, model \in Verdicts : InitSegmenter(chunk, model)
  /\ InitAssistant
  /\ InitProcessor("none")

NextSegmenter == SEG_split_into_frames \/ SEG_is_speech \/ SEG_is_low_energy

SpecSegmenter == InitSegmenterInputs /\ [][NextSegmenter]_vars

\* ------------------------------------------- assistant.py: VoiceAssistant
\* and tts.py: TextToSpeechHandler. The threads are the main thread in
\* start(), the audio worker, the event worker, the TTS monitor, the TTS
\* worker and the playback worker; an action is what one thread does between
\* two accesses of what the threads share.
assistantRest == <<redis, qlog, sessionVars, rmVars, segVars, spVars>>

Transcription(u) == [type |-> "transcription", data |-> u]
TtsComplete == [type |-> "tts_complete", data |-> 0]

\* TextToSpeechHandler.clear_queues: stops the playback when is_playing is
\* set, empties both queues and deletes every file of audio_dir
TTS_clear_queues ==
  /\ is_playing' = FALSE
  /\ sd_playing' = NoSentence
  /\ sentence_queue' = <<>>
  /\ audio_queue' = <<>>
  /\ audio_files' = {}

\* start(): the three threads are started ...
VA_start_threads ==
  /\ va_main = "init"
  /\ va_main' = "threads"
  /\ va_audio' = "listen"
  /\ va_event' = [va_event EXCEPT !.pc = "get"]
  /\ va_monitor' = "check"
  /\ UNCHANGED <<state, state_lock, event_queue, sentence_queue, audio_queue,
                 is_playing, audio_files, sd_playing, tts_worker,
                 playback_worker, cause, va_log>>
  /\ UNCHANGED assistantRest

\* ... and then self.state = LISTENING, without state_lock
VA_start_listening ==
  /\ va_main = "threads"
  /\ va_main' = "running"
  /\ state' = "LISTENING"
  /\ cause' = "start"
  /\ UNCHANGED <<state_lock, event_queue, sentence_queue, audio_queue,
                 is_playing, audio_files, sd_playing, va_audio, va_event,
                 va_monitor, tts_worker, playback_worker, va_log>>
  /\ UNCHANGED assistantRest

\* _audio_worker: the text heard holds a stop command
AUD_stop_command ==
  /\ va_audio = "listen"
  /\ va_log.stops < MaxStopCommands
  /\ va_audio' = "stop_lock"
  /\ va_log' = [va_log EXCEPT !.stops = @ + 1]
  /\ UNCHANGED <<state, state_lock, event_queue, sentence_queue, audio_queue,
                 is_playing, audio_files, sd_playing, va_main, va_event,
                 va_monitor, tts_worker, playback_worker, cause>>
  /\ UNCHANGED assistantRest

\* _handle_stop_command: with state_lock, sd.stop() and
\* tts_handler.clear_queues()
AUD_stop_acquire ==
  /\ va_audio = "stop_lock"
  /\ state_lock = "free"
  /\ state_lock' = "audio"
  /\ TTS_clear_queues
  /\ va_audio' = "stop_clear"
  /\ UNCHANGED <<state, event_queue, va_main, va_event, va_monitor,
                 tts_worker, playback_worker, cause, va_log>>
  /\ UNCHANGED assistantRest

\* _handle_stop_command: self.clear_queues() empties the event queue and
\* calls tts_handler.clear_queues() again
AUD_stop_clear ==
  /\ va_audio = "stop_clear"
  /\ event_queue' = <<>>
  /\ TTS_clear_queues
  /\ va_audio' = "stop_reset"
  /\ UNCHANGED <<state, state_lock, va_main, va_event, va_monitor,
                 tts_worker, playback_worker, cause, va_log>>
  /\ UNCHANGED assistantRest

\* _handle_stop_command: state = LISTENING, the lock is released, return
AUD_stop_return ==
  /\ va_audio = "stop_reset"
  /\ state' = "LISTENING"
  /\ cause' = "stop"
  /\ state_lock' = "free"
  /\ va_audio' = "listen"
  /\ va_log' = [va_log EXCEPT !.stopped = va_log.put]
  /\ UNCHANGED <<event_queue, sentence_queue, audio_queue, is_playing,
                 audio_files, sd_playing, va_main, va_event, va_monitor,
                 tts_worker, playback_worker>>
  /\ UNCHANGED assistantRest

\* _audio_worker: another text was heard; it is queued as a transcription
\* event if the state is LISTENING, and dropped otherwise
AUD_transcription ==
  /\ va_audio = "listen"
  /\ va_log.heard < MaxHeard
  /\ state = "LISTENING" => Len(event_queue) < MaxEvents
  /\ va_log' = [va_log EXCEPT !.heard = @ + 1]
  /\ event_queue' = IF state = "LISTENING"
                    THEN Append(event_queue, Transcription(va_log.heard + 1))
                    ELSE event_queue
  /\ UNCHANGED <<state, state_lock, sentence_queue, audio_queue, is_playing,
                 audio_files, sd_playing, va_main, va_audio, va_event,
                 va_monitor, tts_worker, playback_worker, cause>>
  /\ UNCHANGED assistantRest

\* _event_worker: event_queue.get
EVT_get ==
  /\ va_event.pc = "get"
  /\ event_queue # <<>>
  /\ event_queue' = Tail(event_queue)
  /\ va_event' = [pc |-> Head(event_queue).type,
                  data |-> Head(event_queue).data, put |-> 0]
  /\ UNCHANGED <<state, state_lock, sentence_queue, audio_queue, is_playing,
                 audio_files, sd_playing, va_main, va_audio, va_monitor,
                 tts_worker, playback_worker, cause, va_log>>
  /\ UNCHANGED assistantRest

\* _handle_transcription: with state_lock; in state LISTENING the state
\* becomes PROCESSING and the response is generated, else nothing is done
EVT_transcription ==
  /\ va_event.pc = "transcription"
  /\ state_lock = "free"
  /\ IF state = "LISTENING"
     THEN /\ state' = "PROCESSING"
          /\ cause' = "transcription"
          /\ state_lock' = "event"
          /\ va_event' = [va_event EXCEPT !.pc = "process_response"]
          /\ va_log' = [va_log EXCEPT !.generations = @ + 1]
     ELSE /\ va_event' = [va_event EXCEPT !.pc = "get"]
          /\ UNCHANGED <<state, cause, state_lock, va_log>>
  /\ UNCHANGED <<event_queue, sentence_queue, audio_queue, is_playing,
                 audio_files, sd_playing, va_main, va_audio, va_monitor,
                 tts_worker, playback_worker>>
  /\ UNCHANGED assistantRest

\* llm.process_response: a sentence of the reply is put in the sentence queue
EVT_put_sentence ==
  /\ va_event.pc = "process_response"
  /\ va_event.put < MaxSent
  /\ LET s == <<va_event.data, va_event.put + 1>>
     IN /\ sentence_queue' = Append(sentence_queue, s)
        /\ va_log' = [va_log EXCEPT !.put = @ \cup {s}]
  /\ va_event' = [va_event EXCEPT !.put = @ + 1]
  /\ UNCHANGED <<state, state_lock, event_queue, audio_queue, is_playing,
                 audio_files, sd_playing, va_main, va_audio, va_monitor,
                 tts_worker, playback_worker, cause>>
  /\ UNCHANGED assistantRest

\* _handle_transcription: process_response returned, state = SPEAKING
EVT_generated ==
  /\ va_event.pc = "process_response"
  /\ state' = "SPEAKING"
  /\ cause' = "generated"
  /\ state_lock' = "free"
  /\ va_event' = [va_event EXCEPT !.pc = "get"]
  /\ UNCHANGED <<event_queue, sentence_queue, audio_queue, is_playing,
                 audio_files, sd_playing, va_main, va_audio, va_monitor,
                 tts_worker, playback_worker, va_log>>
  /\ UNCHANGED assistantRest

\* _handle_transcription: process_response raised, state = LISTENING
EVT_processing_error ==
  /\ va_event.pc = "process_response"
  /\ state' = "LISTENING"
  /\ cause' = "error"
  /\ state_lock' = "free"
  /\ va_event' = [va_event EXCEPT !.pc = "get"]
  /\ UNCHANGED <<event_queue, sentence_queue, audio_queue, is_playing,
                 audio_files, sd_playing, va_main, va_audio, va_monitor,
                 tts_worker, playback_worker, va_log>>
  /\ UNCHANGED assistantRest

\* _handle_tts_complete: with state_lock; in state SPEAKING clear_queues()
\* and state = LISTENING, then the sleep before the lock is released
EVT_tts_complete ==
  /\ va_event.pc = "tts_complete"
  /\ state_lock = "free"
  /\ IF state = "SPEAKING"
     THEN /\ event_queue' = <<>>
          /\ TTS_clear_queues
          /\ state' = "LISTENING"
          /\ cause' = "tts_complete"
          /\ state_lock' = "event"
          /\ va_event' = [va_event EXCEPT !.pc = "sleep"]
     ELSE /\ va_event' = [va_event EXCEPT !.pc = "get"]
          /\ UNCHANGED <<event_queue, is_playing, sd_playing, sentence_queue,
                         audio_queue, audio_files, state, cause, state_lock>>
  /\ UNCHANGED <<va_main, va_audio, va_monitor, tts_worker, playback_worker,
                 va_log>>
  /\ UNCHANGED assistantRest

EVT_tts_complete_return ==
  /\ va_event.pc = "sleep"
  /\ state_lock' = "free"
  /\ va_event' = [va_event EXCEPT !.pc = "get"]
  /\ UNCHANGED <<state, event_queue, sentence_queue, audio_queue, is_playing,
                 audio_files, sd_playing, va_main, va_audio, va_monitor,
                 tts_worker, playback_worker, cause, va_log>>
  /\ UNCHANGED assistantRest

\* _monitor_tts_queue: what it tests before and after its sleep of 0.5 s
monitor_idle ==
  sentence_queue = <<>> /\ audio_queue = <<>> /\ ~is_playing

\* _monitor_tts_queue: speaking seems done, sleep 0.5 s
TM_check ==
  /\ va_monitor = "check"
  /\ state = "SPEAKING"
  /\ monitor_idle
  /\ va_monitor' = "sleep"
  /\ UNCHANGED <<state, state_lock, event_queue, sentence_queue, audio_queue,
                 is_playing, audio_files, sd_playing, va_main, va_audio,
                 va_event, tts_worker, playback_worker, cause, va_log>>
  /\ UNCHANGED assistantRest

\* _monitor_tts_queue: the second test; tts_complete is queued if it holds
TM_recheck ==
  /\ va_monitor = "sleep"
  /\ monitor_idle => Len(event_queue) < MaxEvents
  /\ va_monitor' = "check"
  /\ event_queue' = IF monitor_idle THEN Append(event_queue, TtsComplete)
                    ELSE event_queue
  /\ UNCHANGED <<state, state_lock, sentence_queue, audio_queue, is_playing,
                 audio_files, sd_playing, va_main, va_audio, va_event,
                 tts_worker, playback_worker, cause, va_log>>
  /\ UNCHANGED assistantRest

\* _tts_worker: sentence_queue.get
TW_get ==
  /\ tts_worker.pc = "get"
  /\ sentence_queue # <<>>
  /\ sentence_queue' = Tail(sentence_queue)
  /\ tts_worker' = [pc |-> "generate", sentence |-> Head(sentence_queue)]
  /\ UNCHANGED <<state, state_lock, event_queue, audio_queue, is_playing,
                 audio_files, sd_playing, va_main, va_audio, va_event,
                 va_monitor, playback_worker, cause, va_log>>
  /\ UNCHANGED assistantRest

\* _tts_worker: _generate_audio wrote the file, which is put in audio_queue
TW_generated ==
  /\ tts_worker.pc = "generate"
  /\ audio_files' = audio_files \cup {tts_worker.sentence}
  /\ audio_queue' = Append(audio_queue, tts_worker.sentence)
  /\ tts_worker' = [pc |-> "get", sentence |-> NoSentence]
  /\ UNCHANGED <<state, state_lock, event_queue, sentence_queue, is_playing,
                 sd_playing, va_main, va_audio, va_event, va_monitor,
                 playback_worker, cause, va_log>>
  /\ UNCHANGED assistantRest

\* _tts_worker: _generate_audio returned None
TW_failed ==
  /\ tts_worker.pc = "generate"
  /\ tts_worker' = [pc |-> "get", sentence |-> NoSentence]
  /\ UNCHANGED <<state, state_lock, event_queue, sentence_queue, audio_queue,
                 is_playing, audio_files, sd_playing, va_main, va_audio,
                 va_event, va_monitor, playback_worker, cause, va_log>>
  /\ UNCHANGED assistantRest

\* _playback_worker: audio_queue.get
PW_get ==
  /\ playback_worker.pc = "get"
  /\ audio_queue # <<>>
  /\ audio_queue' = Tail(audio_queue)
  /\ playback_worker' = [pc |-> "play_audio", file |-> Head(audio_queue)]
  /\ UNCHANGED <<state, state_lock, event_queue, sentence_queue, is_playing,
                 audio_files, sd_playing, va_main, va_audio, va_event,
                 va_monitor, tts_worker, cause, va_log>>
  /\ UNCHANGED assistantRest

\* _play_audio: return if the file is missing, else is_playing.set()
PW_play_audio ==
  /\ playback_worker.pc = "play_audio"
  /\ IF playback_worker.file \in audio_files
     THEN /\ is_playing' = TRUE
          /\ playback_worker' = [playback_worker EXCEPT !.pc = "read"]
     ELSE /\ is_playing' = is_playing
          /\ playback_worker' = [pc |-> "get", file |-> NoSentence]
  /\ UNCHANGED <<state, state_lock, event_queue, sentence_queue, audio_queue,
                 audio_files, sd_playing, va_main, va_audio, va_event,
                 va_monitor, tts_worker, cause, va_log>>
  /\ UNCHANGED assistantRest

\* _play_audio: sf.read and sd.play; a missing file raises, and the finally
\* block clears is_playing
PW_play ==
  /\ playback_worker.pc = "read"
  /\ IF playback_worker.file \in audio_files
     THEN /\ sd_playing' = playback_worker.file
          /\ playback_worker' = [playback_worker EXCEPT !.pc = "wait"]
          /\ va_log' =
               [va_log EXCEPT
                  !.started = @ \cup {playback_worker.file},
                  !.late = @ \cup ({playback_worker.file} \cap va_log.stopped)]
          /\ UNCHANGED is_playing
     ELSE /\ is_playing' = FALSE
          /\ playback_worker' = [pc |-> "get", file |-> NoSentence]
          /\ UNCHANGED <<sd_playing, va_log>>
  /\ UNCHANGED <<state, state_lock, event_queue, sentence_queue, audio_queue,
                 audio_files, va_main, va_audio, va_event, va_monitor,
                 tts_worker, cause>>
  /\ UNCHANGED assistantRest

\* _play_audio: sd.wait() returned, at the end of the audio or after an
\* sd.stop(); is_playing.clear() and the file is removed
PW_played ==
  /\ playback_worker.pc = "wait"
  /\ sd_playing' = NoSentence
  /\ is_playing' = FALSE
  /\ audio_files' = audio_files \ {playback_worker.file}
  /\ playback_worker' = [pc |-> "get", file |-> NoSentence]
  /\ UNCHANGED <<state, state_lock, event_queue, sentence_queue, audio_queue,
                 va_main, va_audio, va_event, va_monitor, tts_worker, cause,
                 va_log>>
  /\ UNCHANGED assistantRest

InitVoiceAssistant ==
  /\ redis = [k \in Keys |-> <<>>]
  /\ qlog = [log |-> NoLog, ops |-> 0]
  /\ InitSession
  /\ InitManager(MainMaxRetries)
  /\ InitSegmenter(NoChunk, [k \in 1 .. MaxFrames |-> "silence"])
  /\ InitAssistant
  /\ InitProcessor("none")

NextAssistant ==
  \/ VA_start_threads \/ VA_start_listening
  \/ AUD_stop_command \/ AUD_stop_acquire \/ AUD_stop_clear
  \/ AUD_stop_return \/ AUD_transcription
  \/ EVT_get \/ EVT_transcription \/ EVT_put_sentence \/ EVT_generated
  \/ EVT_processing_error \/ EVT_tts_complete \/ EVT_tts_complete_return
  \/ TM_check \/ TM_recheck
  \/ TW_get \/ TW_generated \/ TW_failed
  \/ PW_get \/ PW_play_audio \/ PW_play \/ PW_played

SpecAssistant == InitVoiceAssistant /\ [][NextAssistant]_vars

\* --------------------------- utils/sentence_processor.py: SentenceProcessor
\* A text is a sequence of characters: "H" stands for the upper-case
\* letters, "i" for the lower-case ones.
IsUpper(c) == c = "H"
IsSpace(c) == c = " "
IsPunct(c) == c \in {".", "!", "?"}

\* the chunks a reply stream yields
Texts == {<<"H">>, <<"i">>, <<" ">>, <<".">>, <<"H", " ", "i">>,
          <<"H", " ", "i", ".">>, <<".", " ">>, <<" ", "H">>}

\* str.split(): the words of a text
RECURSIVE words(_)
words(text) ==
  IF text = <<>> THEN <<>>
  ELSE IF IsSpace(Head(text)) THEN words(Tail(text))
  ELSE LET ends == {k \in 1 .. Len(text) :
                      k = Len(text) \/ IsSpace(text[k + 1])}
           k == CHOOSE e \in ends : \A f \in ends : e <= f
       IN <<SubSeq(text, 1, k)>> \o words(SubSeq(text, k + 1, Len(text)))

\* _clean_sentence: ' '.join(sentence.split()), a full stop added if the
\* text does not end with punctuation
clean_sentence(sentence) ==
  LET cleaned == join(<<" ">>, words(sentence))
  IN IF cleaned # <<>> /\ ~IsPunct(cleaned[Len(cleaned)])
     THEN Append(cleaned, ".") ELSE cleaned

\* _is_complete_sentence: starts with a capital, ends with punctuation, has
\* two words at least
is_complete_sentence(text) ==
  /\ text # <<>>
  /\ IsUpper(text[1])
  /\ IsPunct(text[Len(text)])
  /\ Len(words(text)) >= 2

\* sentence_end_pattern.split(buffer): the pattern matches the whitespace
\* between a punctuation mark and a capital, and the empty string at the end
\* of a text that ends with a punctuation mark
RECURSIVE pattern_split(_, _, _)
pattern_split(text, start, i) ==
  LET n == Len(text)
      run == CHOOSE j \in i .. n :
               /\ \A k \in i .. j : IsSpace(text[k])
               /\ j = n \/ ~IsSpace(text[j + 1])
  IN IF i > n
     THEN IF n >= 1 /\ IsPunct(text[n])
          THEN <<SubSeq(text, start, n), <<>>>>
          ELSE <<SubSeq(text, start, n)>>
     ELSE IF /\ i > 1 /\ IsPunct(text[i - 1]) /\ IsSpace(text[i])
             /\ run < n /\ IsUpper(text[run + 1])
     THEN <<SubSeq(text, start, i - 1)>>
            \o pattern_split(text, run + 1, run + 1)
     ELSE pattern_split(text, start, i + 1)

\* `cleaned_sentence not in self.processed_sentences`
not_processed_any(sentence, processed) == TRUE
not_processed(sentence, processed) == sentence \notin processed

\* process_chunk(text) on a processor p = [buffer, processed]: the new
\* buffer and set and the list returned
process_chunk(p, text) ==
  LET whole == p.buffer \o text
      potential == pattern_split(whole, 1, 1)
      n == Len(potential) - 1
      F[k \in 0 .. n] ==
        IF k = 0 THEN [out |-> <<>>, processed |-> p.processed]
        ELSE LET cleaned == clean_sentence(potential[k])
             IN IF /\ is_complete_sentence(cleaned)
                   /\ not_processed(cleaned, F[k - 1].processed)
                THEN [out |-> Append(F[k - 1].out, cleaned),
                      processed |-> F[k - 1].processed \cup {cleaned}]
                ELSE F[k - 1]
  IN IF Len(potential) > 1
     THEN [buffer |-> potential[Len(potential)],
           processed |-> F[n].processed, out |-> F[n].out]
     ELSE IF /\ words(text) # <<>>
             /\ is_complete_sentence(whole)
             /\ not_processed(clean_sentence(whole), p.processed)
     THEN [buffer |-> <<>>,
           processed |-> p.processed \cup {clean_sentence(whole)},
           out |-> <<clean_sentence(whole)>>]
     ELSE [buffer |-> whole, processed |-> p.processed, out |-> <<>>]

\* get_remaining(): the cleaned buffer if it is a complete sentence not yet
\* returned (out has one element), else None (out is empty)
get_remaining(p) ==
  LET cleaned == clean_sentence(p.buffer)
  IN IF /\ p.buffer # <<>>
        /\ is_complete_sentence(cleaned)
        /\ not_processed(cleaned, p.processed)
     THEN [buffer |-> <<>>, processed |-> p.processed \cup {cleaned},
           out |-> <<cleaned>>]
     ELSE [buffer |-> p.buffer, processed |-> p.processed, out |-> <<>>]

Processor == [buffer |-> buffer, processed |-> processed_sentences]
Logged(method, text, result) ==
  Append(sp_log, [method |-> method, text |-> text, out |-> result.out])

processorRest == <<redis, qlog, sessionVars, rmVars, segVars, vaVars>>

\* process_chunk called directly
SP_process_chunk ==
  /\ rg.pc = "direct"
  /\ Len(sp_log) < MaxCalls
  /\ \E text \in Texts :
       LET r == process_chunk(Processor, text)
       IN /\ buffer' = r.buffer
          /\ processed_sentences' = r.processed
          /\ sp_log' = Logged("process_chunk", buffer \o text, r)
  /\ UNCHANGED rg
  /\ UNCHANGED processorRest

\* get_remaining called directly
SP_get_remaining ==
  /\ rg.pc = "direct"
  /\ Len(sp_log) < MaxCalls
  /\ LET r == get_remaining(Processor)
     IN /\ buffer' = r.buffer
        /\ processed_sentences' = r.processed
        /\ sp_log' = Logged("get_remaining", buffer, r)
  /\ UNCHANGED rg
  /\ UNCHANGED processorRest

\* ------------------- core/response_generator.py: process_response, with
\* the reply stream and the broker working
\* `async for chunk`: sentences = processor.process_chunk(chunk), and every
\* sentence is put in the queue
RG_chunk ==
  /\ rg.pc = "stream"
  /\ Len(sp_log) < MaxCalls - 1
  /\ \E text \in Texts :
       LET r == process_chunk(Processor, text)
       IN /\ buffer' = r.buffer
          /\ processed_sentences' = r.processed
          /\ sp_log' = Logged("process_chunk", buffer \o text, r)
          /\ rg' = [rg EXCEPT !.bound = TRUE, !.sentences = r.out,
                              !.put = rg.put \o r.out]
  /\ UNCHANGED processorRest

\* the stream has ended: complete_response = "".join(sentences) goes to the
\* conversation history and into the response_generation_complete envelope;
\* with `sentences` unbound the statement raises and `except` ends the call
RG_exhausted ==
  /\ rg.pc = "stream"
  /\ rg' = IF rg.bound
           THEN [rg EXCEPT !.pc = "get_remaining", !.completed = TRUE,
                           !.complete_response = join(<<>>, rg.sentences)]
           ELSE [rg EXCEPT !.pc = "raised"]
  /\ UNCHANGED <<buffer, processed_sentences, sp_log>>
  /\ UNCHANGED processorRest

\* remaining = processor.get_remaining(), put in the queue if there is one
RG_remaining ==
  /\ rg.pc = "get_remaining"
  /\ LET r == get_remaining(Processor)
     IN /\ buffer' = r.buffer
        /\ processed_sentences' = r.processed
        /\ sp_log' = Logged("get_remaining", buffer, r)
        /\ rg' = [rg EXCEPT !.pc = "done", !.put = rg.put \o r.out]
  /\ UNCHANGED processorRest

InitSentences ==
  /\ redis = [k \in Keys |-> <<>>]
  /\ qlog = [log |-> NoLog, ops |-> 0]
  /\ InitSession
  /\ InitManager(MainMaxRetries)
  /\ InitSegmenter(NoChunk, [k \in 1 .. MaxFrames |-> "silence"])
  /\ InitAssistant
  /\ \E caller \in {"direct", "stream"} : InitProcessor(caller)

NextSentences ==
  \/ SP_process_chunk \/ SP_get_remaining
  \/ RG_chunk \/ RG_exhausted \/ RG_remaining

SpecSentences == InitSentences /\ [][NextSentences]_vars


\* ------------------------------------------------------------- properties
SelfKey == get_queue_key(Self)
Range(seq) == {seq[i] : i \in DOMAIN seq}
IsPrefix(a, b) == Len(a) <= Len(b) /\ \A i \in DOMAIN a : a[i] = b[i]
InQueue(content) == \E m \in Range(Pending(redis, Self)) : m.content = content
Generated(seq) == SelectSeq(seq, LAMBDA c : c[1] > 0)
Terminal == {"audio_stream_end", "audio_stream_error"}
TerminalCount(call) ==
  Cardinality({j \in DOMAIN sent :
                 sent[j].call = call /\ sent[j].type \in Terminal})
TerminalTypes(call) ==
  {sent[j].type : j \in {k \in DOMAIN sent :
                           sent[k].call = call /\ sent[k].type \in Terminal}}
LexLess(a, b) == a[1] < b[1] \/ (a[1] = b[1] /\ a[2] < b[2])
Increasing(seq) == \A i, j \in DOMAIN seq : i < j => LexLess(seq[i], seq[j])
TasksOver == qt \in {"none", "done"} /\ at \in {"none", "done"}

\* C1: at most one synthesized-speech stream is in flight: a stream_audio
\* call starts only when no other call is running, the loop is at
\* queue_manager.get only with current_message None and no call running, and
\* the envelopes on the socket never go back to an earlier call.
C1_AtMostOneInFlight ==
  /\ in_flight <= 1
  /\ qt = "get" => (current_message = None /\ in_flight = 0)
  /\ \A i, j \in DOMAIN sent : i < j => sent[i].call <= sent[j].call

\* a message is being streamed while the next one waits in the queue
C1_Witness ==
  /\ qt = "stream_audio" /\ sa = "send_chunk" /\ in_flight = 1
  /\ current_message # None
  /\ Len(redis[SelfKey]) > 0

\* C2: once an exception was raised inside the dispatch loop, the loop is
\* shut down: it is at no further queue get and in no stream_audio call.
C2_CoordinatedShutdown ==
  pq_exc # "none" => qt \notin {"get", "stream_audio"}

\* C3: when the endpoint has exited, both tasks are over, the
\* transcriber connection is finished, the client's queue is empty and the
\* socket is not in active_connections.
C3_Release ==
  ep = "done" =>
    /\ TasksOver
    /\ dg_connection \in {"none", "finished"}
    /\ redis[SelfKey] = <<>>
    /\ WS \notin Range(active_connections)

C5_FIFO ==
  \A c \in Clients :
    LET l == qlog.log[c]
    IN /\ IsPrefix(l.gets, l.puts)
       /\ Pending(redis, c) = SubSeq(l.puts, Len(l.gets) + 1, Len(l.puts))
       /\ get_length(redis, c) = Len(l.puts) - Len(l.gets)

\* one client got two of its messages while another client's is queued
C5_Witness ==
  /\ Len(qlog.log["c1"].gets) = 2
  /\ Len(qlog.log["c2"].puts) = 1 /\ Len(qlog.log["c2"].gets) = 0

\* C6: sentences are put in generation order, utterance after utterance, and
\* the sentences handed to stream_audio are the first of those put, in the
\* same order.
C6_NoReordering ==
  /\ Increasing(putlog)
  /\ IsPrefix(Generated(streamed), putlog)

\* two sentences of the first reply and one of the second were dispatched
C6_Witness ==
  /\ Len(streamed) = 3
  /\ streamed = <<<<1, 1>>, <<1, 2>>, <<2, 1>>>>

\* C7: while a reply is being generated and enqueued, the socket open and
\* the ingest task alive, the ingest loop can take a receive_audio or a
\* transcribe step.
C7_IngestNotBlocked ==
  (pr # NoReply /\ sock_open /\ ARunning) =>
    ENABLED (PA_receive \/ PA_transcribe)

\* C8: after a stop directive of the client that arrived while a message was
\* being streamed and another one was queued, the ingest loop keeps running.
C8_BargeIn ==
  (stop_seen /\ qt = "stream_audio" /\ Len(redis[SelfKey]) > 0) =>
    at \notin {"exc_cleanup", "fin_cleanup", "done"}

C10_FailedDropped ==
  /\ qt \in {"get", "sleep"} => current_message = None
  /\ \A i, j \in DOMAIN streamed :
       (i < j /\ streamed[i][1] > 0) => streamed[i] # streamed[j]
  /\ (qt = "done" /\ ~qt_cancel) => ~sock_open
  /\ \A i \in DOMAIN returns :
       (returns[i] = "False" /\ i < Len(streamed)) =>
         ~InQueue(streamed[i])

\* after a failed stream the next queued message is being streamed
C10_Witness ==
  /\ Len(returns) = 1 /\ returns[1] = "False"
  /\ Len(streamed) = 2 /\ qt = "stream_audio" /\ sock_open

\* the envelopes of one stream_audio call, and the first of them
EnvelopesOf(call) == {j \in DOMAIN sent : sent[j].call = call}
FirstOf(call) == CHOOSE j \in EnvelopesOf(call) : \A k \in EnvelopesOf(call) : j <= k

C12_Cancellation ==
  /\ cleanup_event = ~is_running
  /\ cleanup_event =>
       /\ TasksOver
       /\ sa = "idle" /\ in_flight = 0 /\ current_message = None
       /\ Len(returns) = Len(streamed)

\* the signal is set after both loops ran and a message was being streamed
C12_Witness ==
  /\ cleanup_event /\ ~is_running
  /\ qt = "done" /\ at = "done"
  /\ Len(returns) >= 1 /\ returns[Len(returns)] = "cancelled"

\* C13: after QueueManager.get failed in the dispatch loop because the broker
\* is unreachable, the dispatch loop is over or on its way out: no further
\* reply fragment is handed to stream_audio.
C13_BrokerFailureFatal ==
  pq_exc = "queue" => (qt # "stream_audio" /\ sa = "idle")

\* C14: once a send of the dispatch path has raised because the client's
\* socket is closed, the dispatch loop is over: it is at no further queue get
\* and in no further stream_audio call.
C14_ClosedSocketFatal ==
  pq_exc \in SendErrors => qt \notin {"get", "stream_audio"}

\* the endpoint's `finally` has started or finished its cleanup steps
TornDown == ep \in {"cancel_tasks", "gather", "transcriber_cleanup",
                    "clear_queue", "disconnect", "done"}

\* C15: when the session is torn down after the transcription provider
\* failed in the ingest loop, with the client still connected, the endpoint
\* went through `except Exception`, where the send of the error envelope is
\* attempted
C15_ErrorEnvelopeAttempted ==
  (TornDown /\ pa_exc = "transcribe" /\ pq_exc = "none" /\ sock_open)
    => ep_error

\* the ingest loop is in its exception handler, its `finally`, or over
IngestEnded == at \in {"exc_cleanup", "fin_cleanup", "done"}

\* C16: a failed put while reply sentences are enqueued does not end the
\* ingest loop or the session: while nothing else raised in the loop and the
\* endpoint is still waiting for its tasks, the loop is running and no
\* shutdown was signalled; a session torn down with no other exception in
\* the ingest loop was ended by the dispatch loop's RuntimeError
C16_PutFailureNotFatal ==
  /\ (put_failed # {} /\ pa_exc = "none" /\ ep = "wait")
       => (~IngestEnded /\ ~at_exc /\ is_running /\ ~cleanup_event)
  /\ (put_failed # {} /\ pa_exc = "none" /\ TornDown)
       => pq_exc \in {"close_sent", "runtime"}

\* after a failed put the loop received the next chunk and passed it to the
\* transcriber, with the session still open
C16_Witness ==
  /\ put_failed # {} /\ at = "transcribe" /\ pr = NoReply
  /\ ep = "wait" /\ sock_open /\ pa_exc = "none"

\* C17: a sentence whose put failed is put again later: once a sentence
\* produced after it has been enqueued, the failed one has been enqueued too
C17_FailedPutRetried ==
  \A c \in put_failed :
    (\E d \in Range(putlog) : LexLess(c, d)) => c \in Range(putlog)

\* C18: a failure of transcriber.transcribe does not end the ingest loop
C18_TranscribeFailureSkipped == pa_exc = "transcribe" => ~IngestEnded

\* text is the fragments in order with exactly one space between neighbours
JoinedBySpaces(text, fragments) ==
  LET n == Len(fragments)
      O[i \in 1 .. n] ==
        IF i = 1 THEN 0 ELSE O[i - 1] + Len(fragments[i - 1]) + 1
  IN /\ n > 0
     /\ Len(text) = O[n] + Len(fragments[n])
     /\ \A i \in 1 .. n :
          /\ SubSeq(text, O[i] + 1, O[i] + Len(fragments[i])) = fragments[i]
          /\ i > 1 => text[O[i]] = " "

HelloWorld == <<"H", "e", "l", "l", "o", " ", "w", "o", "r", "l", "d">>

\* process_response is over and the loop goes on: reset() has run
FlushDone ==
  pr # NoReply /\ pr' = NoReply /\ at' \in {"recv", "transcribe"}

\* C19: every flush of the aggregator emits exactly one Utterance: it happens
\* only when the utterance is complete and the buffer is non-empty, the text
\* is the buffered fragments in arrival order joined by single spaces
\* ("Hello", "world" give "Hello world"), when the flush is over the buffer
\* is empty and transcription_complete is false, and a flush check on an
\* empty buffer emits nothing
C19_OneUtterancePerFlush ==
  [][/\ emitted' # emitted =>
          /\ transcription_complete /\ Len(is_finals) > 0
          /\ Len(emitted') = Len(emitted) + 1
          /\ SubSeq(emitted', 1, Len(emitted)) = emitted
          /\ JoinedBySpaces(emitted'[Len(emitted')].utterance, is_finals)
          /\ is_finals = <<Transcript(1), Transcript(2)>>
               => emitted'[Len(emitted')].utterance = HelloWorld
          /\ pr = NoReply /\ pr' # NoReply
     /\ (pr = NoReply /\ pr' # NoReply) => Len(emitted') = Len(emitted) + 1
     /\ FlushDone => (is_finals' = <<>> /\ ~transcription_complete')
     /\ (is_finals = <<>> \/ ~transcription_complete) => emitted' = emitted
    ]_vars

\* "Hello" and "world" were flushed as one Utterance, the flush is over and
\* the loop is back at receive_audio with an empty buffer
C19_Witness ==
  /\ Len(emitted) = 1 /\ emitted[1].utterance = HelloWorld
  /\ is_finals = <<>> /\ ~transcription_complete
  /\ pr = NoReply /\ at = "recv" /\ ep = "wait" /\ sock_open

\* C20: while the session runs, every fragment appended to is_finals is
\* still buffered or is part of exactly one emitted Utterance
C20_NoFragmentLost ==
  (sock_open /\ ep = "wait" /\ pa_exc = "none") =>
  \A k \in 1 .. nFinals :
    \/ \E i \in DOMAIN is_finals : is_finals[i] = Transcript(k)
    \/ Cardinality({<<j, i>> \in (DOMAIN emitted) \X (1 .. MaxFinals) :
                      /\ i \in DOMAIN emitted[j].is_finals
                      /\ emitted[j].is_finals[i] = Transcript(k)}) = 1

\* C21: an emitted Utterance ends with the fragment of the result that
\* completed it: no fragment accepted after that result is part of it
C21_DrainBeforeAccept ==
  \A j \in DOMAIN emitted : Len(emitted[j].is_finals) = emitted[j].complete_at

\* C22: after clear_user_queue(c), while nothing was put for c since, the
\* queue of c is empty: get_length(c) is 0, no get took a message, and the
\* last get returned None
C22_ClearThenEmpty ==
  \A c \in Clients :
    LET l == qlog.log[c]
    IN l.cleared =>
         /\ get_length(redis, c) = 0
         /\ Pending(redis, c) = <<>>
         /\ l.gets = <<>> /\ l.last = None

\* a clear removed a message of c1, a get for c1 after it returned nothing,
\* and the queue of c2 still holds its message
C22_Witness ==
  /\ qlog.log["c1"].cleared /\ qlog.log["c1"].dropped >= 1
  /\ qlog.log["c1"].empty >= 1
  /\ get_length(redis, "c2") = 1

\* C23: unregister_websocket is idempotent: no exception leaves a call, and
\* when a call for an id returns - the id registered or not, the call alone
\* or interleaved with other calls for the same id - the id is not in
\* active_websockets and every other entry is as it was
C23_UnregisterIdempotent ==
  [][/\ escaped' = {}
     /\ \A c \in Clients :
          unreg_returns'[c] > unreg_returns[c] =>
            /\ ~registered(active_websockets', c)
            /\ \A d \in Clients \ {c} :
                 active_websockets'[d] = active_websockets[d]
    ]_vars

\* two interleaved calls for c1 (the second found the id already deleted and
\* its KeyError was caught) and a call for an id that was not registered have
\* returned; c2 is still registered
C23_Witness ==
  /\ key_errors >= 1 /\ unreg_returns["c1"] >= 3
  /\ ~registered(active_websockets, "c1")
  /\ registered(active_websockets, "c2")
  /\ escaped = {}

\* C24: a heartbeat task whose write failed unregisters its client id and
\* ends: it reaches the end of the task, and when it does the id is not in
\* active_websockets
C24_FailedHeartbeatUnregisters ==
  /\ \A i \in 1 .. MaxRegisters :
       (hb[i].failed /\ hb[i].pc # "done")
         ~> (hb[i].pc = "done"
             /\ ~registered(active_websockets, hb[i].client))
  /\ [][\A i \in 1 .. MaxRegisters :
          (hb'[i].failed /\ hb'[i].pc = "done" /\ hb[i].pc # "done")
            => ~registered(active_websockets', hb'[i].client)]_vars

\* the heartbeat of c1 failed while c1 was registered, the task is over and
\* c1 is gone; c2 is still registered
C24_Witness ==
  \E i \in 1 .. MaxRegisters :
    /\ hb[i].failed /\ hb[i].pc = "done" /\ hb[i].client = "c1"
    /\ ~registered(active_websockets, "c1")
    /\ unreg_returns["c1"] = 1 /\ key_errors = 0
    /\ registered(active_websockets, "c2")

\* C25: for every client id at most one heartbeat loop is running
C25_OneHeartbeatPerId ==
  \A c \in Clients :
    Cardinality({i \in 1 .. MaxRegisters :
                   hb[i].client = c /\ hb[i].pc \notin {"none", "done"}}) <= 1

\* executions of connect_redis in flight, over start() calls and monitors
InFlight ==
  Cardinality({i \in 1 .. MaxStarts : connecting(starts[i])})
    + Cardinality({i \in 1 .. MaxStarts : connecting(monitors[i])})

\* C26: connect_redis terminates for every ConnectionConfig: a start() call
\* that is connecting eventually returns or raises
C26_ConnectTerminates ==
  \A i \in 1 .. MaxStarts :
    connecting(starts[i]) ~> (starts[i].pc \in {"done", "raised"})

\* C27: at most one execution of connect_redis is in flight
C27_OneReconnectInFlight == InFlight <= 1


\* C28 (as stated; the code does otherwise): is_speech gives no
\* speech/silence decision for a chunk whose length is not frame_size, it
\* ends with an InvalidFrameSize error.
C28_WrongSizeRejected ==
  ("is_speech" \in called /\ len(audio_chunk) # frame_size)
    => speech_out = "InvalidFrameSize"

\* a chunk below the energy floor: the true root mean square of its samples
\* is below ThresholdNum / ThresholdDen
true_sum_squares(chunk) ==
  LET S[k \in 0 .. Len(chunk.runs)] ==
        IF k = 0 THEN 0
        ELSE S[k - 1] + chunk.runs[k].n * chunk.runs[k].v * chunk.runs[k].v
  IN S[Len(chunk.runs)]
BelowFloor(chunk) ==
  /\ samples(chunk) > 0
  /\ true_sum_squares(chunk) * ThresholdDen * ThresholdDen
       < ThresholdNum * ThresholdNum * samples(chunk)

\* C29 (as stated; the code does otherwise): a chunk whose RMS energy is
\* below the floor is never classified as speech, whatever the model says
\* about its frames.
C29_LowEnergyNeverSpeech ==
  ("is_speech" \in called /\ BelowFloor(audio_chunk)) => speech_out = "False"

\* C30: split_into_frames returns floor(len / frame_size) frames, the i-th
\* one the window [i * frame_size, (i + 1) * frame_size), for every chunk
\* length and without an error; is_speech is True exactly when the model
\* calls a complete frame speech (having raised on none before it), and
\* False when there is no complete frame or the model raises.
C30_FramesAndVerdict ==
  LET length == len(audio_chunk)
      n == length \div frame_size
      reached(k) == \A j \in 1 .. k - 1 : verdicts[j] = "silence"
  IN /\ "split_into_frames" \in called =>
          /\ Len(frames_out) = n
          /\ \A i \in 0 .. n - 1 :
               frames_out[i + 1] = <<i * frame_size, (i + 1) * frame_size>>
     /\ "is_speech" \in called =>
          /\ speech_out \in {"True", "False"}
          /\ speech_out = "True" <=>
               \E k \in 1 .. n : verdicts[k] = "speech" /\ reached(k)
          /\ n = 0 => speech_out = "False"
          /\ (\E k \in 1 .. n : verdicts[k] = "raise" /\ reached(k))
               => speech_out = "False"

C30_Witness ==
  /\ called = {"split_into_frames", "is_speech", "is_low_energy"}
  /\ len(audio_chunk) = 2 * frame_size + 1
  /\ Len(frames_out) = 2
  /\ verdicts[1] = "silence" /\ verdicts[2] = "speech"
  /\ speech_out = "True"


\* the transitions of VoiceAssistant.state that C31 lists, with the
\* statement that makes them
ListedTransitions ==
  {<<"IDLE", "LISTENING", "start">>,
   <<"LISTENING", "PROCESSING", "transcription">>,
   <<"PROCESSING", "SPEAKING", "generated">>,
   <<"SPEAKING", "LISTENING", "tts_complete">>}
    \cup {<<s, "LISTENING", c>> :
            s \in {"IDLE", "PROCESSING", "SPEAKING"}, c \in {"stop", "error"}}

\* C31 (as stated; the code does otherwise): the state changes only by the
\* listed transitions (IDLE to LISTENING on start, LISTENING to PROCESSING to
\* SPEAKING for a transcription, SPEAKING to LISTENING on tts_complete, any
\* state to LISTENING on a stop command or a processing error), a response
\* is generated only for a transcription handled in state LISTENING, and
\* while one is generated the state is PROCESSING and no second one starts.
C31_StateMachine ==
  [][/\ state' # state => <<state, state', cause'>> \in ListedTransitions
     /\ va_log'.generations > va_log.generations =>
          /\ state = "LISTENING"
          /\ va_event.pc # "process_response"
     /\ va_event'.pc = "process_response" => state' = "PROCESSING"]_vars


\* speech generation and playback are complete: no sentence waits, none is
\* being synthesized, no audio file waits and nothing is being played
SpeechComplete ==
  /\ sentence_queue = <<>>
  /\ tts_worker.pc = "get"
  /\ audio_queue = <<>>
  /\ playback_worker.pc = "get"
  /\ sd_playing = NoSentence

\* C32 (as stated; the code does otherwise): the monitor queues tts_complete
\* only when speech generation and playback are complete, and the state
\* never goes from SPEAKING to LISTENING on tts_complete while audio of the
\* reply is still to be played.
C32_CompleteMeansPlayed ==
  [][/\ (va_monitor = "sleep" /\ Len(event_queue') > Len(event_queue))
          => SpeechComplete
     /\ (state = "SPEAKING" /\ state' = "LISTENING"
           /\ cause' = "tts_complete") => SpeechComplete]_vars


\* C33 (as stated; the code does otherwise): when _handle_stop_command
\* returns, playback is stopped, the sentence, audio and event queues are
\* empty and the state is LISTENING, and no audio of a sentence that was
\* queued before the stop is played after it.
C33_BargeIn ==
  [][/\ (va_audio = "stop_reset" /\ va_audio' = "listen") =>
          /\ sd_playing' = NoSentence
          /\ sentence_queue' = <<>>
          /\ audio_queue' = <<>>
          /\ event_queue' = <<>>
          /\ state' = "LISTENING"
     /\ va_log'.late = {}]_vars


\* C34: a queue message whose type is not "sentence" is taken from the queue
\* and dropped by the dispatch loop: in that step no envelope is written and
\* stream_audio is not called, current_message is None afterwards and the
\* loop goes on (it sleeps and returns to the next get); the message is
\* never streamed.
C34_NonSentenceDiscarded ==
  [][/\ discarded' # discarded =>
          /\ get_message(redis, Self).type # "sentence"
          /\ discarded' = Append(discarded, get_message(redis, Self))
          /\ redis' = get_left(redis, Self)
          /\ sent' = sent /\ streamed' = streamed /\ returns' = returns
          /\ in_flight' = in_flight /\ sa' = sa
          /\ current_message' = None
          /\ qt' = "sleep" /\ pq_exc' = pq_exc
     /\ \A i \in DOMAIN discarded' :
          /\ discarded'[i].type # "sentence"
          /\ \A j \in DOMAIN streamed' : streamed'[j] # discarded'[i].content
          /\ \A j \in DOMAIN sent' : sent'[j].text # discarded'[i].content
     /\ (discarded # <<>> /\ qt = "sleep" /\ qt' # qt /\ ~cleanup_event
           /\ is_running /\ ~qt_cancel) => qt' = "get"]_vars

\* a control message was dropped, and the loop took and streams the sentence
\* that was queued after it
C34_Witness ==
  /\ Len(discarded) = 1 /\ discarded[1].type = "control"
  /\ Len(streamed) = 1 /\ streamed[1][1] > 0
  /\ qt = "stream_audio" /\ sock_open
  /\ \E j \in DOMAIN sent : sent[j].type = "audio_chunk"


\* C35 (as stated; the code does otherwise): once an utterance is complete
\* (transcription_complete with a non-empty is_finals) the ingest loop, while
\* the session stays open, eventually hands it to the response generator,
\* even if the client sends no further audio chunk.
C35_FlushEventually ==
  (transcription_complete /\ is_finals # <<>> /\ at = "recv")
    ~> (at # "recv" \/ ~sock_open \/ ep # "wait")


\* every sentence returned so far, in the order of the calls
Returned ==
  LET R[k \in 0 .. Len(sp_log)] ==
        IF k = 0 THEN <<>> ELSE R[k - 1] \o sp_log[k].out
  IN R[Len(sp_log)]

\* the sentences of out occur in text one after the other, whitespace
\* normalised
InOrder(out, text) ==
  LET t == join(<<" ">>, words(text))
      at_pos(s, p) == p + Len(s) - 1 <= Len(t) /\ SubSeq(t, p, p + Len(s) - 1) = s
  IN \E f \in [1 .. Len(out) -> 1 .. Len(t) + 1] :
       /\ \A k \in 1 .. Len(out) : at_pos(out[k], f[k])
       /\ \A k \in 1 .. Len(out) - 1 : f[k] + Len(out[k]) <= f[k + 1]

\* C36: over any sequence of process_chunk and get_remaining calls on one
\* SentenceProcessor no sentence is returned twice, every returned sentence
\* is in processed_sentences, and the sentences one process_chunk call
\* returns are in the order in which they appear in the text.
C36_NoSentenceTwice ==
  /\ \A i, j \in DOMAIN Returned : i < j => Returned[i] # Returned[j]
  /\ \A i \in DOMAIN Returned : Returned[i] \in processed_sentences
  /\ \A k \in DOMAIN sp_log :
       sp_log[k].method = "process_chunk" =>
         InOrder(sp_log[k].out, sp_log[k].text)

\* "H i." came twice and was returned once; another call returned two
\* sentences at once
C36_Witness ==
  /\ \E k \in DOMAIN sp_log :
       /\ sp_log[k].out = <<>>
       /\ \E m \in 1 .. k - 1 : clean_sentence(sp_log[k].text) \in Range(sp_log[m].out)
  /\ Len(Returned) >= 2
  /\ \E k \in DOMAIN sp_log : sp_log[k].method = "get_remaining" /\ sp_log[k].out # <<>>


\* C39 (as stated; the code does otherwise): when the reply stream has ended
\* without error, the text of the response_generation_complete envelope and
\* of the agent entry of the history is the concatenation, in order, of all
\* sentences process_response put in the queue for the utterance, for any
\* number of chunks, zero included.
C39_CompleteIsAllSentences ==
  rg.pc \in {"done", "raised"} =>
    /\ rg.completed
    /\ rg.complete_response = join(<<>>, rg.put)


\* C37: once stop() has returned, and as long as start() is not called again
\* and no earlier start() is still connecting, redis_client stays None: the
\* connection monitor creates no new Redis client, also when stop() ran while
\* the monitor was inside ensure_connection or connect_redis
C37_StaysStopped ==
  (/\ stp.pc = "done"
   /\ stop_event
   /\ \A i \in 1 .. MaxStarts : ~connecting(starts[i]))
    => redis_client = "none"


\* C38: a heartbeat task whose write failed closes and removes only the
\* socket it was writing to: the socket its unregister call closes, and the
\* entry that call deletes from active_websockets, are that socket, also
\* when the id was registered again with a new socket during the write
C38_OnlyFailedSocket ==
  \A i \in 1 .. MaxRegisters :
    hb[i].failed =>
      /\ hb[i].closes \in {NoSocket, hb[i].sock}
      /\ hb[i].removed \in {NoSocket, hb[i].sock}


\* the chunk holds a sample that is not zero
NonZero(chunk) == \E k \in 1 .. Len(chunk.runs) : chunk.runs[k].v # 0

\* C40: for a chunk of whole 16-bit samples of which at least one is not
\* zero, is_low_energy with the default threshold returns False, also when
\* the squares of the samples do not fit in 16 bits
C40_NonZeroIsNotLow ==
  ("is_low_energy" \in called /\ ~audio_chunk.odd /\ NonZero(audio_chunk))
    => energy_out = "False"

====
